---- MODULE Spec2Model ----
(***************************************************************************)
(* Verification model of the L8ZK / OpenAC credential presentation         *)
(* protocol: the verifier (prover/verify.ts), the WASM-path prepare and    *)
(* show coordinators (prover/prepare.ts, prover/show.ts), the credential   *)
(* parser (credential/parser.ts) and the OpenAC main class driving the     *)
(* native file-based proving backend (openac.ts, prover/native-backend.ts).*)
(***************************************************************************)
EXTENDS Integers, Sequences, FiniteSets, TLC

(***************************************************************************)
(* Bounds of the model.                                                    *)
(***************************************************************************)
MaxTicks == 2
MaxShows == 2
MaxReblinds == 1
MaxOps == 3
MaxInFlight == 2

(***************************************************************************)
(* Program constants.                                                      *)
(***************************************************************************)
PROTOCOL_VERSION == "1.0.0"
DEFAULT_MAX_PROOF_AGE == 5 * 60 * 1000

(***************************************************************************)
(* Byte sequences produced by the proving backend are abstract: a proof    *)
(* knows the circuit it was made for, the credential it was proved over,   *)
(* the shared commitment (blinds) it is bound to and the randomness that   *)
(* fixes its bit representation.  Two byte sequences are equal iff all     *)
(* four components are equal.                                              *)
(***************************************************************************)
MkBytes(circ, cred, comm, rnd) ==
    [circ |-> circ, cred |-> cred, comm |-> comm, rnd |-> rnd]

\* new Uint8Array(0)
EmptyBytes == MkBytes("empty", 0, 0, 0)

\* bytes that were not produced by any prove/reblind call
GarbageBytes == MkBytes("garbage", 0, 0, 0)

(***************************************************************************)
(* Policies.  A policy is the list of its entries in insertion order (the  *)
(* order Object.entries yields); an entry is <<claimName, condition>> and  *)
(* a condition object is the list of its <<operator, bound>> members.      *)
(***************************************************************************)
CondGte18 == << <<"gte", 18>> >>
CondGte21 == << <<"gte", 21>> >>
CondIn1   == << <<"in", 1>> >>

PolicyAge18 == << <<"age", CondGte18>> >>
PolicyAge21 == << <<"age", CondGte21>> >>
PolicyNat   == << <<"nationality", CondIn1>> >>
PolicyAgeNat == << <<"age", CondGte18>>, <<"nationality", CondIn1>> >>

\* JSON.stringify of a condition object: the token sequence of its text
RECURSIVE JsonMembers(_)
JsonMembers(cond) ==
    IF cond = <<>> THEN <<>>
    ELSE LET m == Head(cond)
             rest == JsonMembers(Tail(cond))
         IN  <<"\"", m[1], "\"", ":", m[2]>>
               \o (IF rest = <<>> THEN <<>> ELSE <<",">> \o rest)

JsonStringify(cond) == <<"{">> \o JsonMembers(cond) \o <<"}">>

\* a policy member whose value is undefined
Undefined == << <<"undefined", 0>> >>

HasKey(policy, key) == \E i \in 1..Len(policy) : policy[i][1] = key

\* actual[key]: the value of the last member named key
Lookup(policy, key) ==
    LET idx == {i \in 1..Len(policy) : policy[i][1] = key}
    IN  policy[CHOOSE i \in idx : \A j \in idx : j <= i][2]

\* comparePolicies(expected, actual)
RECURSIVE comparePolicies(_, _)
comparePolicies(expected, actual) ==
    IF expected = <<>> THEN [valid |-> TRUE]
    ELSE LET key == Head(expected)[1]
             expectedCondition == Head(expected)[2]
         IN  IF expectedCondition = Undefined
             THEN comparePolicies(Tail(expected), actual)
             ELSE IF ~HasKey(actual, key) \/ Lookup(actual, key) = Undefined
             THEN [valid |-> FALSE,
                   error |-> <<"Missing", "policy", "condition", "for", key>>]
             ELSE IF JsonStringify(expectedCondition)
                       # JsonStringify(Lookup(actual, key))
             THEN [valid |-> FALSE,
                   error |-> <<"Policy", "condition", "mismatch", "for", key>>]
             ELSE comparePolicies(Tail(expected), actual)

(***************************************************************************)
(* Proof objects and their serialized form.  A binary field of a           *)
(* SerializedProof is a text; base64UrlEncode maps bytes to the text that  *)
(* carries them and base64UrlDecode maps it back, and throws on a text     *)
(* that is not an encoding.                                                *)
(***************************************************************************)
\* The byte arrays of the proving backend are abstract (MkBytes) and the text
\* that carries one is [text |-> bytes].  A byte array given by its content
\* is [raw |-> <<b1, ..., bn>>] and its text is [chars |-> <<c1, ..., cm>>],
\* a character being its index in the Base64 alphabet (62 for "+", 63 for
\* "/"), 64 for "=", 65 for "-" or 66 for "_".
RECURSIVE base64Encode(_)
base64Encode(bytes) ==
    IF Len(bytes) = 0 THEN <<>>
    ELSE IF Len(bytes) = 1
    THEN <<bytes[1] \div 4, (bytes[1] % 4) * 16, 64, 64>>
    ELSE IF Len(bytes) = 2
    THEN <<bytes[1] \div 4, (bytes[1] % 4) * 16 + bytes[2] \div 16,
           (bytes[2] % 16) * 4, 64>>
    ELSE <<bytes[1] \div 4, (bytes[1] % 4) * 16 + bytes[2] \div 16,
           (bytes[2] % 16) * 4 + bytes[3] \div 64, bytes[3] % 64>>
         \o base64Encode(SubSeq(bytes, 4, Len(bytes)))

base64UrlToBase64(base64url) ==
    LET base64 == [i \in 1..Len(base64url) |->
                      IF base64url[i] = 65 THEN 62
                      ELSE IF base64url[i] = 66 THEN 63 ELSE base64url[i]]
        padding == (4 - (Len(base64) % 4)) % 4
    IN  base64 \o [i \in 1..padding |-> 64]

\* base64Decode(base64) on a text that is Base64 after normalisation
RECURSIVE base64Decode(_)
base64Decode(base64) ==
    LET normalized == base64UrlToBase64(base64)
        c == normalized
    IN  IF Len(c) = 0 THEN <<>>
        ELSE IF c[3] = 64 THEN <<c[1] * 4 + c[2] \div 16>>
        ELSE IF c[4] = 64
        THEN <<c[1] * 4 + c[2] \div 16, (c[2] % 16) * 16 + c[3] \div 4>>
        ELSE <<c[1] * 4 + c[2] \div 16, (c[2] % 16) * 16 + c[3] \div 4,
               (c[3] % 4) * 64 + c[4]>>
             \o base64Decode(SubSeq(c, 5, Len(c)))

base64UrlEncode(bytes) ==
    LET \* base64ToBase64Url: "+" to "-", "/" to "_", trailing "=" removed
        base64ToBase64Url(base64) ==
            LET kept == SelectSeq(base64, LAMBDA ch : ch # 64)
            IN  [i \in 1..Len(kept) |->
                    IF kept[i] = 62 THEN 65 ELSE IF kept[i] = 63 THEN 66 ELSE kept[i]]
    IN  IF "raw" \in DOMAIN bytes
        THEN [chars |-> base64ToBase64Url(base64Encode(bytes.raw)), wellFormed |-> TRUE]
        ELSE [text |-> bytes, wellFormed |-> TRUE]

MalformedText == [text |-> EmptyBytes, wellFormed |-> FALSE]

base64UrlDecodeThrows(str) == ~str.wellFormed

base64UrlDecode(str) ==
    IF "chars" \in DOMAIN str
    THEN [raw |-> base64Decode(base64UrlToBase64(str.chars))]
    ELSE str.text

\* typeof proof.prepareProof === "string"
isSerializedProof(proof) == "wellFormed" \in DOMAIN proof.prepareProof

serializeProof(proof) ==
    [prepareProof |-> base64UrlEncode(proof.prepareProof),
     showProof |-> base64UrlEncode(proof.showProof),
     sharedCommitment |-> base64UrlEncode(proof.sharedCommitment),
     policy |-> proof.policy,
     nonce |-> proof.nonce,
     timestamp |-> proof.timestamp,
     version |-> proof.version]

deserializeThrows(serialized) ==
    \/ base64UrlDecodeThrows(serialized.prepareProof)
    \/ base64UrlDecodeThrows(serialized.showProof)
    \/ base64UrlDecodeThrows(serialized.sharedCommitment)

deserializeProof(serialized) ==
    [prepareProof |-> base64UrlDecode(serialized.prepareProof),
     showProof |-> base64UrlDecode(serialized.showProof),
     sharedCommitment |-> base64UrlDecode(serialized.sharedCommitment),
     policy |-> serialized.policy,
     nonce |-> serialized.nonce,
     timestamp |-> serialized.timestamp,
     version |-> serialized.version]

(***************************************************************************)
(* VerifyOptions: an options object is the record of the members that      *)
(* were given; a member that is absent is undefined.                       *)
(***************************************************************************)
Given(options, member) == member \in DOMAIN options

\* const { maxProofAge = DEFAULT_MAX_PROOF_AGE } = options
MaxProofAgeOf(options) ==
    IF Given(options, "maxProofAge") THEN options.maxProofAge
    ELSE DEFAULT_MAX_PROOF_AGE

(***************************************************************************)
(* The four cheap checks, each as the condition under which the code       *)
(* rejects.                                                                *)
(***************************************************************************)
VersionRejected(proof) == proof.version # PROTOCOL_VERSION

\* a freshness check that already rejects at exactly maxProofAge
ExpiredRejected_AtBoundary(proof, options, time) ==
    time - proof.timestamp >= MaxProofAgeOf(options)

\* proofAge > maxProofAge, with proofAge = Date.now() - timestamp
ExpiredRejected(proof, options, time) ==
    time - proof.timestamp > MaxProofAgeOf(options)

\* JavaScript truthiness of an optional string: undefined and "" are falsy
Truthy(options, member) == Given(options, member) /\ options[member] # ""

\* expectedNonce && proof.nonce !== expectedNonce
NonceRejected(proof, options) ==
    Truthy(options, "expectedNonce") /\ proof.nonce # options.expectedNonce

\* expectedPolicy && !comparePolicies(expectedPolicy, proof.policy).valid
PolicyRejected(proof, options) ==
    /\ Given(options, "expectedPolicy")
    /\ ~comparePolicies(options.expectedPolicy, proof.policy).valid

\* a quickVerify that leaves the policy check to the full verification
quickVerify_NoPolicyCheck(proof, options, time) ==
    IF isSerializedProof(proof) /\ deserializeThrows(proof)
    THEN [valid |-> FALSE, error |-> <<"Invalid", "character">>]
    ELSE
    LET deserializedProof ==
            IF isSerializedProof(proof) THEN deserializeProof(proof) ELSE proof
    IN  IF VersionRejected(deserializedProof)
        THEN [valid |-> FALSE,
              error |-> <<"Unsupported", "version:", deserializedProof.version>>]
        ELSE IF ExpiredRejected(deserializedProof, options, time)
        THEN [valid |-> FALSE, error |-> <<"Proof", "expired">>]
        ELSE IF NonceRejected(deserializedProof, options)
        THEN [valid |-> FALSE, error |-> <<"Nonce", "mismatch">>]
        ELSE [valid |-> TRUE]

\* a quickVerify that looks at the nonce before the version and the age
quickVerify_NonceFirst(proof, options, time) ==
    IF isSerializedProof(proof) /\ deserializeThrows(proof)
    THEN [valid |-> FALSE, error |-> <<"Invalid", "character">>]
    ELSE
    LET deserializedProof ==
            IF isSerializedProof(proof) THEN deserializeProof(proof) ELSE proof
    IN  IF NonceRejected(deserializedProof, options)
        THEN [valid |-> FALSE, error |-> <<"Nonce", "mismatch">>]
        ELSE IF VersionRejected(deserializedProof)
        THEN [valid |-> FALSE,
              error |-> <<"Unsupported", "version:", deserializedProof.version>>]
        ELSE IF ExpiredRejected(deserializedProof, options, time)
        THEN [valid |-> FALSE, error |-> <<"Proof", "expired">>]
        ELSE IF PolicyRejected(deserializedProof, options)
        THEN [valid |-> FALSE,
              error |-> comparePolicies(options.expectedPolicy,
                                        deserializedProof.policy).error]
        ELSE [valid |-> TRUE]

(***************************************************************************)
(* quickVerify(proof, options) evaluated at wall-clock time `time`.        *)
(***************************************************************************)
quickVerify(proof, options, time) ==
    IF isSerializedProof(proof) /\ deserializeThrows(proof)
    THEN [valid |-> FALSE, error |-> <<"Invalid", "character">>]
    ELSE
    LET deserializedProof ==
            IF isSerializedProof(proof) THEN deserializeProof(proof) ELSE proof
    IN  IF VersionRejected(deserializedProof)
        THEN [valid |-> FALSE,
              error |-> <<"Unsupported", "version:", deserializedProof.version>>]
        ELSE IF ExpiredRejected(deserializedProof, options, time)
        THEN [valid |-> FALSE, error |-> <<"Proof", "expired">>]
        ELSE IF NonceRejected(deserializedProof, options)
        THEN [valid |-> FALSE, error |-> <<"Nonce", "mismatch">>]
        ELSE IF PolicyRejected(deserializedProof, options)
        THEN [valid |-> FALSE,
              error |-> comparePolicies(options.expectedPolicy,
                                        deserializedProof.policy).error]
        ELSE [valid |-> TRUE]

(***************************************************************************)
(* The WASM proving backend (external collaborator).  A verifying key is   *)
(* the key of one circuit; verify accepts exactly the proofs that were     *)
(* produced for that circuit.                                              *)
(***************************************************************************)
WasmVerify(bytes, vk) == bytes.circ = vk

(***************************************************************************)
(* verifyProof(proof, verifyingKey, options) evaluated at wall-clock time  *)
(* `time`; wasmLoads tells whether loadWasm() resolves.  The value is the  *)
(* returned VerificationResult together with the list of wasm.verify calls *)
(* that were made, in order: the bytes verified, the key, the exit code of *)
(* the verifier (0 for an in-process call) and whether verify succeeded.   *)
(***************************************************************************)
verifyProof(proof, verifyingKey, options, time, wasmLoads) ==
    IF isSerializedProof(proof) /\ deserializeThrows(proof)
    THEN [result |-> [valid |-> FALSE,
                      error |-> <<"Verification", "error:", "Invalid", "character">>],
          calls |-> <<>>]
    ELSE
    LET deserializedProof ==
            IF isSerializedProof(proof) THEN deserializeProof(proof) ELSE proof
        prepareCall == [bytes |-> deserializedProof.prepareProof,
                        vk |-> verifyingKey, exit |-> 0,
                        ok |-> WasmVerify(deserializedProof.prepareProof, verifyingKey)]
        showCall == [bytes |-> deserializedProof.showProof,
                     vk |-> verifyingKey, exit |-> 0,
                     ok |-> WasmVerify(deserializedProof.showProof, verifyingKey)]
    IN  IF VersionRejected(deserializedProof)
        THEN [result |-> [valid |-> FALSE,
                          error |-> <<"Unsupported", "proof", "version:",
                                      deserializedProof.version>>],
              calls |-> <<>>]
        ELSE IF ExpiredRejected(deserializedProof, options, time)
        THEN [result |-> [valid |-> FALSE, error |-> <<"Proof", "expired.">>],
              calls |-> <<>>]
        ELSE IF NonceRejected(deserializedProof, options)
        THEN [result |-> [valid |-> FALSE, error |-> <<"Nonce", "mismatch">>],
              calls |-> <<>>]
        ELSE IF PolicyRejected(deserializedProof, options)
        THEN [result |-> [valid |-> FALSE,
                          error |-> <<"Policy", "mismatch:">>
                                     \o comparePolicies(options.expectedPolicy,
                                                        deserializedProof.policy).error],
              calls |-> <<>>]
        ELSE IF ~wasmLoads
        THEN [result |-> [valid |-> FALSE,
                          error |-> <<"Verification", "error:", "Failed", "to",
                                      "load", "WASM", "module">>],
              calls |-> <<>>]
        ELSE IF ~prepareCall.ok
        THEN [result |-> [valid |-> FALSE,
                          error |-> <<"Prepare", "proof", "verification", "failed">>],
              calls |-> <<prepareCall>>]
        ELSE IF ~showCall.ok
        THEN [result |-> [valid |-> FALSE,
                          error |-> <<"Show", "proof", "verification", "failed">>],
              calls |-> <<prepareCall, showCall>>]
        ELSE [result |-> [valid |-> TRUE,
                          verifiedPolicy |-> deserializedProof.policy,
                          timestamp |-> deserializedProof.timestamp],
              calls |-> <<prepareCall, showCall>>]

(***************************************************************************)
(* The native proving backend (external collaborator): a binary that is    *)
(* spawned once per operation and keeps its artifacts in files of one      *)
(* working directory (keys/prepare_proof.bin, keys/show_proof.bin,         *)
(* keys/shared_blinds.bin, ...).  A finished process reports an exit code, *)
(* or no exit code (null) when it was killed by a signal; a process that   *)
(* could not be started reports an `error` event instead.                  *)
(***************************************************************************)
NoFile == MkBytes("nofile", 0, 0, 0)

\* the exit code reported for a process that was killed by a signal (null)
NullCode == -1

ProcClosed(code, stdout, stderr) ==
    [event |-> "close", code |-> code, stdout |-> stdout, stderr |-> stderr]

ProcSpawnError == [event |-> "error", code |-> NullCode, stdout |-> "", stderr |-> ""]

\* what a `<circuit> verify` process can do, given the proof file it reads
VerifyProcOutcomes(file, circuit) ==
    (IF file.circ = circuit
     THEN {ProcClosed(0, "successful", "")}
     ELSE {ProcClosed(1, "", "verification failed"), ProcClosed(1, "", "panicked")})
      \cup {ProcClosed(NullCode, "", ""), ProcSpawnError}

\* runBinary: the promise resolves with { stdout, stderr, code: code || 0 }
\* on `close` and rejects with a ProofError on `error`
runBinary(proc) ==
    IF proc.event = "error"
    THEN [threw |-> "ProofError", stdout |-> "", stderr |-> "", code |-> 0]
    ELSE [threw |-> "none", stdout |-> proc.stdout, stderr |-> proc.stderr,
          code |-> IF proc.code = NullCode \/ proc.code = 0 THEN 0 ELSE proc.code]

\* nativeVerify(circuit), given the process it spawned
nativeVerify(proc) ==
    LET result == runBinary(proc)
    IN  IF result.threw # "none" THEN [threw |-> result.threw, value |-> FALSE]
        ELSE IF result.code # 0
        THEN IF result.stderr = "verify errored" \/ result.stderr = "verification failed"
             THEN [threw |-> "none", value |-> FALSE]
             ELSE [threw |-> "ProofError", value |-> FALSE]
        ELSE [threw |-> "none",
              value |-> (result.stdout = "successful" \/ result.code = 0)]

(***************************************************************************)
(* OpenAC.verify(proof, expectedPolicy, options).  expectedPolicy is an    *)
(* optional argument: <<>> when absent, <<policy>> when given.             *)
(***************************************************************************)
\* { ...options, expectedPolicy }
SpreadOptions(options, expectedPolicy) ==
    IF expectedPolicy = <<>> THEN options
    ELSE [expectedPolicy |-> expectedPolicy[1]] @@ options

NoResult == [valid |-> FALSE, error |-> <<>>]

\* an OpenAC.verify that runs the native verifier before the quick checks
OpenACVerify_VerifyFirst(proof, expectedPolicy, options, time, backendAvailable, showFile, proc) ==
    LET quickResult == quickVerify(proof, SpreadOptions(options, expectedPolicy), time)
        call == [bytes |-> showFile, vk |-> "show", exit |-> proc.code,
                 ok |-> (proc.event = "close" /\ proc.code = 0)]
    IN  [threw |-> nativeVerify(proc).threw,
         result |-> IF quickResult.valid /\ nativeVerify(proc).value
                    THEN [valid |-> TRUE, timestamp |-> proof.timestamp]
                    ELSE [valid |-> FALSE, error |-> <<"Cryptographic">>],
         calls |-> <<call>>]

\* backendAvailable: ensureNativeBackend() resolves; showFile: the content of
\* keys/show_proof.bin when the verifier process runs; proc: that process
OpenACVerify(proof, expectedPolicy, options, time, backendAvailable, showFile, proc) ==
    LET quickResult == quickVerify(proof, SpreadOptions(options, expectedPolicy), time)
        showValid == nativeVerify(proc)
        call == [bytes |-> showFile, vk |-> "show", exit |-> proc.code,
                 ok |-> (proc.event = "close" /\ proc.code = 0)]
    IN  IF ~backendAvailable
        THEN [threw |-> "ConfigError", result |-> NoResult, calls |-> <<>>]
        ELSE IF ~quickResult.valid
        THEN [threw |-> "none",
              result |-> [valid |-> FALSE, error |-> quickResult.error],
              calls |-> <<>>]
        ELSE IF showValid.threw # "none"
        THEN [threw |-> showValid.threw, result |-> NoResult, calls |-> <<call>>]
        ELSE IF showValid.value
        THEN [threw |-> "none",
              result |-> [valid |-> TRUE, timestamp |-> proof.timestamp],
              calls |-> <<call>>]
        ELSE [threw |-> "none",
              result |-> [valid |-> FALSE, timestamp |-> proof.timestamp,
                          error |-> <<"Cryptographic", "verification", "failed">>],
              calls |-> <<call>>]

(***************************************************************************)
(* SD-JWT credentials.  The credential text is abstract: it knows how many *)
(* dot-separated segments its JWT part has, whether its header and payload *)
(* decode to JSON, the header's alg, the keys of its payload in insertion  *)
(* order, the digests listed in the payload's _sd array, the form of its   *)
(* signature and its disclosure parts.  A disclosure part is the text that *)
(* decodes to [salt, claimName, claimValue].  `serial` identifies the      *)
(* text given to the holder's operations: two such credentials are the     *)
(* same string iff their serials are equal.                                *)
(* The signature segment is "compact" (decodes to 64 bytes), "short"       *)
(* (decodes to fewer bytes) or "invalid" (not base64 text).  `ending` says *)
(* how the text ends after its disclosure parts: "none" (nothing follows), *)
(* "tilde" (a final "~") or "kbjwt" ("~" and a key-binding JWT).  `length`  *)
(* is the number of characters of a disclosure part and `messageLength`    *)
(* that of the text "header.payload" of the JWT.                           *)
(***************************************************************************)
Disclosure(salt, claimName, claimValue) ==
    [salt |-> salt, claimName |-> claimName, claimValue |-> claimValue,
     wellFormed |-> TRUE, length |-> 48]

SDJWT(serial, alg, payloadKeys, sd, disclosures) ==
    [serial |-> serial, segments |-> 3, headerJson |-> TRUE, payloadJson |-> TRUE,
     alg |-> alg, payloadKeys |-> payloadKeys, sd |-> sd,
     signature |-> "compact", disclosures |-> disclosures, ending |-> "none",
     messageLength |-> 600]

InSeq(s, x) == \E i \in 1..Len(s) : s[i] = x

\* SHA-256 of the disclosure text, in hex: collision-free on the texts
computeDisclosureHash(encoded) ==
    <<"sha256", encoded.salt, encoded.claimName, encoded.claimValue>>

parseDisclosureThrows(encoded) == ~encoded.wellFormed

parseDisclosure(encoded) ==
    [salt |-> encoded.salt, claimName |-> encoded.claimName,
     claimValue |-> encoded.claimValue, encoded |-> encoded,
     hash |-> computeDisclosureHash(encoded)]

\* parts.slice(1).filter(p => p.length > 0): every non-empty part after the
\* JWT, a final key-binding JWT included.  A key-binding JWT is three
\* base64url segments joined by dots, which do not decode to a JSON array.
DisclosureParts(credential) ==
    LET keyBindingPart ==
            [salt |-> "", claimName |-> "", claimValue |-> "", wellFormed |-> FALSE,
             length |-> 900]
    IN  credential.disclosures \o
            (IF credential.ending = "kbjwt" THEN <<keyBindingPart>> ELSE <<>>)

\* what parseSDJWT throws, in the order of its statements; atob tells
\* whether the runtime has atob, which rejects text that is not base64
\* (without it Buffer.from decodes any text)
parseSDJWTError(credential, atob) ==
    LET CredentialError(message) == [name |-> "CredentialError", message |-> message]
        parts == DisclosureParts(credential)
    IN  IF credential.segments # 3 THEN CredentialError("Invalid SD-JWT format")
        ELSE IF ~credential.headerJson
        THEN CredentialError("Failed to parse SD-JWT header")
        ELSE IF ~credential.payloadJson
        THEN CredentialError("Failed to parse SD-JWT payload")
        ELSE IF credential.alg # "ES256" THEN CredentialError("Unsupported algorithm")
        ELSE IF credential.signature = "invalid" /\ atob
        THEN [name |-> "InvalidCharacterError", message |-> "not correctly encoded"]
        ELSE IF \E i \in 1..Len(parts) : parseDisclosureThrows(parts[i])
        THEN CredentialError("Failed to parse disclosure")
        ELSE [name |-> "none", message |-> ""]

parseSDJWTThrows(credential) == parseSDJWTError(credential, TRUE).name # "none"

parseSDJWT(credential) ==
    LET parts == DisclosureParts(credential)
        \* parts[parts.length - 1]: the JWT itself when the text has no "~"
        lastPart == IF credential.ending = "kbjwt" THEN "kbjwt"
                    ELSE IF credential.ending = "tilde" THEN ""
                    ELSE IF credential.disclosures = <<>> THEN "jwt"
                    ELSE "disclosure"
    IN  [header |-> [alg |-> credential.alg],
         payload |-> [keys |-> credential.payloadKeys, sd |-> credential.sd],
         signature |-> credential.signature,
         \* the length of rawHeader + "." + rawPayload
         messageLength |-> credential.messageLength,
         disclosures |-> [i \in 1..Len(parts) |-> parseDisclosure(parts[i])],
         keyBinding |-> IF lastPart \in {"kbjwt", "jwt"} THEN <<lastPart>> ELSE <<>>]

\* key.startsWith("_")
StartsWithUnderscore(key) == key \in {"_sd", "_sd_alg"}

ReservedKeys == {"iss", "sub", "iat", "exp", "cnf"}

\* a loop that pushes every disclosure's name without looking for it first
AddDisclosureClaims_NoIncludes(availableClaims, disclosures) ==
    availableClaims \o [i \in 1..Len(disclosures) |-> disclosures[i].claimName]

\* the loop over parsed.disclosures of extractMetadata
RECURSIVE AddDisclosureClaims(_, _)
AddDisclosureClaims(availableClaims, disclosures) ==
    IF disclosures = <<>> THEN availableClaims
    ELSE AddDisclosureClaims(
             IF InSeq(availableClaims, Head(disclosures).claimName)
             THEN availableClaims
             ELSE Append(availableClaims, Head(disclosures).claimName),
             Tail(disclosures))

extractMetadata(parsed) ==
    LET IsClaimKey(key) == ~StartsWithUnderscore(key) /\ key \notin ReservedKeys
    IN  [format |-> "sd-jwt",
         issuer |-> IF InSeq(parsed.payload.keys, "iss") THEN "issuer" ELSE "unknown",
         availableClaims |->
             AddDisclosureClaims(SelectSeq(parsed.payload.keys, IsClaimKey),
                                 parsed.disclosures),
         deviceBound |-> InSeq(parsed.payload.keys, "cnf")]

\* extractAgeClaim: some element of the result is non-zero iff a disclosure
\* named roc_birthday or birthdate exists
extractAgeClaim(parsed) ==
    \E i \in 1..Len(parsed.disclosures) :
        parsed.disclosures[i].claimName \in {"roc_birthday", "birthdate"}

extractClaimsForCircuit(parsed) ==
    [keyBinding |-> InSeq(parsed.payload.keys, "cnf"),
     ageClaim |-> extractAgeClaim(parsed),
     rawClaims |-> {parsed.disclosures[i].claimName :
                        i \in 1..Len(parsed.disclosures)}]

\* parseECDSASignature rejects a signature that is not in compact form
generatePrepareInputsThrows(parsed) == parsed.signature # "compact"

(***************************************************************************)
(* The WASM proving backend's proving side (external collaborator).  r is  *)
(* the randomness the call draws.  reblind re-randomises a prepare proof   *)
(* under the given blinds and returns the commitment the blinds fix.       *)
(***************************************************************************)
WasmProvePrepare(witness, r) ==
    [proof |-> MkBytes("prepare", witness.cred, 0, r),
     instance |-> [cred |-> witness.cred], witness |-> witness]

WasmGenerateBlinds(r) == MkBytes("blinds", 0, r, 0)

WasmReblind(instance, witness, blinds, r) ==
    [proof |-> MkBytes("prepare", instance.cred, blinds.comm, r),
     instance |-> instance, witness |-> witness,
     sharedCommitment |-> MkBytes("commitment", 0, blinds.comm, 0)]

WasmProveShow(witness, r) ==
    [proof |-> MkBytes("show", witness.cred, 0, r)]

\* one call of the backend: who made it, the operation, the blinds it was
\* given (reblind only) and the bytes it returned
WasmCall(by, op, blinds, out) ==
    [by |-> by, op |-> op, blinds |-> blinds, out |-> out]

NoKey == "none"

generateCredentialId(credential) == <<"sha256", credential.serial>>

(***************************************************************************)
(* prepareCredential(options, params, provingKey) evaluated at time `time` *)
(* with backend randomness r; wasmLoads tells whether loadWasm() resolves. *)
(* options.deviceBinding is "true" or "object" when given.  The value is   *)
(* what was thrown, the PreparedState returned, the backend calls made and *)
(* whether loadWasm() was reached.  (The encrypted copy of the credential  *)
(* that the state carries is not modelled.)                                *)
(***************************************************************************)
prepareCredential(options, wasmLoads, r, time) ==
    LET format == IF Given(options, "format") THEN options.format ELSE "sd-jwt"
        credential == options.credential
        parsed == parseSDJWT(credential)
        metadata == extractMetadata(parsed)
        claims == extractClaimsForCircuit(parsed)
        deviceKey ==
            IF Given(options, "deviceBinding")
            THEN IF options.deviceBinding = "object" THEN "optionKey"
                 ELSE IF InSeq(parsed.payload.keys, "cnf") THEN "cnfKey"
                 ELSE NoKey
            ELSE NoKey
        issuerPK == IF Given(options, "issuerPublicKey")
                    THEN options.issuerPublicKey ELSE NoKey
        witness == [cred |-> credential.serial]
        proveResult == WasmProvePrepare(witness, r + 1)
        sharedBlinds == WasmGenerateBlinds(r + 2)
        Fails(error, reached) ==
            [threw |-> error, loadReached |-> reached, calls |-> <<>>]
    IN  IF format # "sd-jwt" THEN Fails("CredentialError", FALSE)
        ELSE IF parseSDJWTThrows(credential) THEN Fails("CredentialError", FALSE)
        ELSE IF issuerPK = NoKey THEN Fails("CredentialError", FALSE)
        ELSE IF generatePrepareInputsThrows(parsed) THEN Fails("Error", FALSE)
        ELSE IF ~wasmLoads THEN Fails("WasmError", TRUE)
        ELSE [threw |-> "none", loadReached |-> TRUE,
              calls |-> <<WasmCall("prepareCredential", "prove_prepare",
                                   EmptyBytes, proveResult.proof),
                          WasmCall("prepareCredential", "generate_blinds",
                                   EmptyBytes, sharedBlinds)>>,
              state |-> [id |-> generateCredentialId(credential),
                         prepareProof |-> proveResult.proof,
                         prepareInstance |-> proveResult.instance,
                         prepareWitness |-> proveResult.witness,
                         sharedBlinds |-> sharedBlinds,
                         deviceKey |-> deviceKey,
                         metadata |-> [metadata EXCEPT
                                          !.deviceBound = (deviceKey # NoKey)],
                         claims |-> claims,
                         createdAt |-> time]]

\* validatePolicy(policy, state) throws a PolicyError
validatePolicyThrows(policy, state) ==
    LET availableClaims == state.metadata.availableClaims
        hasBirthdate == \/ InSeq(availableClaims, "roc_birthday")
                        \/ InSeq(availableClaims, "birthdate")
                        \/ state.claims.ageClaim
    IN  \E i \in 1..Len(policy) :
            /\ policy[i][2] # Undefined
            /\ IF policy[i][1] = "age" THEN ~hasBirthdate
               ELSE /\ ~InSeq(availableClaims, policy[i][1])
                    /\ policy[i][1] \notin state.claims.rawClaims

\* sign(message, privateKey): a signature verifies under the public key
\* that pairs with the private key it was made with; keys are named by pair
sign(message, privateKey) == [message |-> message, key |-> privateKey]

\* getCurrentDate() at wall-clock time `time` (within January 1970)
getCurrentDate(time) == [year |-> 1970, month |-> 1, day |-> 1 + (time \div (24 * 60 * 60 * 1000))]

\* generateShowInputs(state, nonce, deviceSignature, date, params): the
\* signature is <<>> when undefined, <<signature>> otherwise
generateShowInputs(state, nonce, deviceSignature, date) ==
    [deviceKey |-> IF state.claims.keyBinding THEN "cnfKey" ELSE NoKey,
     sig |-> IF deviceSignature # <<>> THEN deviceSignature[1].key ELSE NoKey,
     messageHash |-> IF deviceSignature # <<>> THEN nonce ELSE "",
     currentYear |-> date.year, currentMonth |-> date.month,
     currentDay |-> date.day]

(***************************************************************************)
(* showCredential(state, options, params, provingKey, devicePrivateKey)    *)
(* evaluated at time `time` with backend randomness r; devicePrivateKey    *)
(* is NoKey when the argument is not given.                                *)
(***************************************************************************)
showCredential(state, options, devicePrivateKey, wasmLoads, r, time) ==
    LET date == IF Given(options, "currentDate") THEN options.currentDate
                ELSE getCurrentDate(time)
        reblindedPrepare ==
            WasmReblind(state.prepareInstance, state.prepareWitness,
                        state.sharedBlinds, r + 1)
        deviceSignature ==
            IF devicePrivateKey # NoKey /\ state.deviceKey # NoKey
            THEN <<sign(options.nonce, devicePrivateKey)>> ELSE <<>>
        showInputs == generateShowInputs(state, options.nonce, deviceSignature, date)
        showWitness == [cred |-> state.prepareWitness.cred, inputs |-> showInputs]
        showResult == WasmProveShow(showWitness, r + 2)
    IN  IF validatePolicyThrows(options.policy, state)
        THEN [threw |-> "PolicyError", loadReached |-> FALSE, calls |-> <<>>]
        ELSE IF ~wasmLoads
        THEN [threw |-> "WasmError", loadReached |-> TRUE, calls |-> <<>>]
        ELSE [threw |-> "none", loadReached |-> TRUE,
              calls |-> <<WasmCall("showCredential", "reblind",
                                   state.sharedBlinds, reblindedPrepare.proof),
                          WasmCall("showCredential", "prove_show",
                                   EmptyBytes, showResult.proof)>>,
              inputs |-> showInputs,
              proof |-> [prepareProof |-> reblindedPrepare.proof,
                         showProof |-> showResult.proof,
                         sharedCommitment |-> reblindedPrepare.sharedCommitment,
                         policy |-> options.policy, nonce |-> options.nonce,
                         timestamp |-> time, version |-> PROTOCOL_VERSION]]

\* reblindPreparedState(state, provingKey): the backend calls it makes
reblindPreparedState(state, wasmLoads, r) ==
    LET newBlinds == WasmGenerateBlinds(r + 1)
        result == WasmReblind(state.prepareInstance, state.prepareWitness,
                              newBlinds, r + 2)
    IN  IF ~wasmLoads
        THEN [threw |-> "WasmError", calls |-> <<>>]
        ELSE [threw |-> "none",
              calls |-> <<WasmCall("reblindPreparedState", "generate_blinds",
                                   EmptyBytes, newBlinds),
                          WasmCall("reblindPreparedState", "reblind",
                                   newBlinds, result.proof)>>]

(***************************************************************************)
(* The native backend's proving commands.  A command that exits with 0 has *)
(* written its artifact; every other outcome leaves the files as they      *)
(* were.  The proofs are made over the pre-compiled circuit inputs, not    *)
(* over the credential (cred is 0).                                        *)
(***************************************************************************)
\* what the process of a proving command can do, given the files it reads
ToolProcOutcomes(cmd, files) ==
    (IF cmd = "reblind" /\ files.prepare_proof = NoFile
     THEN {}
     ELSE {ProcClosed(0, "", "")})
      \cup {ProcClosed(1, "", "error"), ProcClosed(NullCode, "", ""), ProcSpawnError}

\* the files after the process of a proving command ended
ToolEffect(cmd, proc, files, r) ==
    IF ~(proc.event = "close" /\ proc.code = 0) THEN files
    ELSE CASE cmd = "generateBlinds" ->
                [files EXCEPT !.shared_blinds = MkBytes("blinds", 0, r, 0)]
           [] cmd \in {"provePrepare", "reblind"} ->
                [files EXCEPT !.prepare_proof =
                     MkBytes("prepare", 0, files.shared_blinds.comm, r)]
           [] cmd = "proveShow" ->
                [files EXCEPT !.show_proof =
                     MkBytes("show", 0, files.shared_blinds.comm, r)]
           [] OTHER -> files

\* nativeSetupPrepare, nativeSetupShow, nativeGenerateBlinds,
\* nativeProvePrepare, nativeProveShow, nativeReblind: what the call throws
nativeTool(proc) ==
    LET result == runBinary(proc)
    IN  IF result.threw # "none" THEN result.threw
        ELSE IF result.code # 0 THEN "ProofError"
        ELSE "none"

\* readProofBytes(circuit) / readSharedBlinds() throw when the file is missing
readFileThrows(file) == file = NoFile

(***************************************************************************)
(* OpenAC.prepare(options) up to its first backend command: what it throws *)
(* and the locals it carries on.  backendReady tells whether               *)
(* ensureNativeBackend() resolves; random is the random part of the id,    *)
(* which no other call has drawn.                                          *)
(***************************************************************************)
CredId(time, random) == <<"cred", time, random>>

OpenACPrepareBegin(options, backendReady, time, random) ==
    LET credential == options.credential
        parsed == parseSDJWT(credential)
        metadata == extractMetadata(parsed)
        hasCnf == InSeq(parsed.payload.keys, "cnf")
        issuerPK == IF Given(options, "issuerPublicKey") THEN options.issuerPublicKey
                    ELSE IF hasCnf THEN "cnfKey" ELSE NoKey
        deviceKeys == IF Given(options, "deviceBinding")
                      THEN IF options.deviceBinding = "object" THEN "provided"
                           ELSE "generated"
                      ELSE NoKey
    IN  IF ~backendReady THEN [threw |-> "ConfigError"]
        ELSE IF parseSDJWTThrows(credential) THEN [threw |-> "CredentialError"]
        ELSE IF issuerPK = NoKey THEN [threw |-> "CredentialError"]
        ELSE [threw |-> "none",
              id |-> CredId(time, random),
              prepared |-> [credential |-> credential.serial,
                            metadata |-> [metadata EXCEPT !.deviceBound =
                                             Given(options, "deviceBinding")],
                            deviceKeys |-> deviceKeys,
                            issuerPublicKey |-> issuerPK]]

\* the backend commands of OpenAC.prepare, in the order they are awaited
PrepareSteps ==
    <<"setupPrepare", "setupShow", "generateBlinds", "provePrepare", "reblind", "verify">>

StepAfter(pc) ==
    LET i == CHOOSE j \in 1..Len(PrepareSteps) : PrepareSteps[j] = pc
    IN  PrepareSteps[i + 1]

\* OpenAC.prepare after `await nativeVerify("prepare")`: what it throws
OpenACPrepareEnd(verified, files) ==
    IF verified.threw # "none" THEN verified.threw
    ELSE IF ~verified.value THEN "ProofError"
    ELSE IF readFileThrows(files.prepare_proof) THEN "Error"
    ELSE IF readFileThrows(files.shared_blinds) THEN "Error"
    ELSE "none"

\* the PreparedCredential that OpenAC.prepare records
PreparedCredential(id, prepared, files) ==
    [id |-> id, credential |-> prepared.credential, metadata |-> prepared.metadata,
     deviceKeys |-> prepared.deviceKeys, issuerPublicKey |-> prepared.issuerPublicKey,
     prepareProof |-> files.prepare_proof, sharedBlinds |-> files.shared_blinds,
     prepareComplete |-> TRUE, showReady |-> TRUE]

\* handle.show(options) up to its first backend command: what it throws
HandleShowBegin(id, creds) ==
    IF id \notin DOMAIN creds THEN "CredentialError"
    ELSE IF ~creds[id].showReady THEN "CredentialError"
    ELSE IF creds[id].deviceKeys = NoKey THEN "CredentialError"
    ELSE "none"

\* handle.show after `await nativeVerify("show")`: what it throws
HandleShowEnd(verified, files) ==
    IF verified.threw # "none" THEN verified.threw
    ELSE IF ~verified.value THEN "ProofError"
    ELSE IF readFileThrows(files.show_proof) THEN "Error"
    ELSE "none"

\* a handle.show whose proof does not carry the caller's nonce
HandleShowProof_NoNonce(cred, options, files, time) ==
    [prepareProof |-> cred.prepareProof,
     showProof |-> files.show_proof,
     sharedCommitment |-> cred.sharedBlinds,
     policy |-> options.policy, nonce |-> "",
     timestamp |-> time, version |-> "1.0.0"]

\* the Proof that handle.show returns
HandleShowProof(cred, options, files, time) ==
    [prepareProof |-> cred.prepareProof,
     showProof |-> files.show_proof,
     sharedCommitment |-> cred.sharedBlinds,
     policy |-> options.policy, nonce |-> options.nonce,
     timestamp |-> time, version |-> "1.0.0"]

(***************************************************************************)
(* State.                                                                  *)
(*   now   the wall clock (Date.now()), in milliseconds                    *)
(*   keys  the artifact files of the native backend's working directory    *)
(*   vin   the arguments a verifier is about to pass to a verification     *)
(*         function: the proof (or serialized proof) and the options       *)
(*   vres  the completed call of a verification function: which function,  *)
(*         the time it read, whether it threw, what it returned and the    *)
(*         backend verify calls it made                                    *)
(*   rng   the number of random draws the proving backend has made         *)
(*   wasmModule  the WASM loader's module cache: null, loaded or failed    *)
(*   pin   the options the holder passes to prepareCredential              *)
(*   pres  the completed prepareCredential call and the state it returned  *)
(*   shows the completed showCredential calls, in order                    *)
(*   wlog  the calls made to the WASM backend, in order                    *)
(*   nativeInitialized  OpenAC's flag of that name                         *)
(*   credentials  OpenAC's map from credential id to PreparedCredential    *)
(*   ops   the operations called on OpenAC and its handles: where each is  *)
(*         (pc), its locals and what it threw or returned                  *)
(*   wasmLoadPromise  the WASM loader's variable of that name: null, or    *)
(*         the promise of the doLoadWasm run, pending or settled           *)
(*   selectedBackend, backendInitialized  the unified backend's variables  *)
(*   store the Map of a MemoryAdapter                                      *)
(*   tasks the asynchronous calls that wait at an `await`                  *)
(*   trace the calls so far, in order: a doLoadWasm run is entered when    *)
(*         it starts, any other call when it returns or throws             *)
(***************************************************************************)
VARIABLES now, keys, rng, vin, vres, wasmModule, pin, pres, shows, wlog,
          nativeInitialized, credentials, ops,
          wasmLoadPromise, selectedBackend, backendInitialized, store,
          tasks, trace

vars == <<now, keys, rng, vin, vres, wasmModule, pin, pres, shows, wlog,
          nativeInitialized, credentials, ops,
          wasmLoadPromise, selectedBackend, backendInitialized, store,
          tasks, trace>>

verifierVars == <<vin, vres>>
proverVars == <<wasmModule, pin, pres, shows, wlog>>
openacVars == <<nativeInitialized, credentials, ops>>
runtimeVars == <<wasmLoadPromise, selectedBackend, backendInitialized, store,
                 tasks, trace>>

NoCall == [fn |-> "none"]

NoKeys == [prepare_proof |-> NoFile, show_proof |-> NoFile, shared_blinds |-> NoFile]

\* an operation slot that was not used yet
Idle == [kind |-> "none", pc |-> "idle"]

\* the parts of the state a specification does not use stay as constructed
VerifierIdle == vin = <<>> /\ vres = NoCall

ProverIdle ==
    wasmModule = "null" /\ pin = <<>> /\ pres = NoCall /\ shows = <<>> /\ wlog = <<>>

OpenACIdle ==
    /\ nativeInitialized = FALSE
    /\ credentials = <<>>
    /\ ops = [k \in 1..MaxOps |-> Idle]

RuntimeIdle ==
    /\ wasmLoadPromise = [state |-> "null"]
    /\ selectedBackend = "none" /\ backendInitialized = FALSE
    /\ store = <<>>
    /\ tasks = <<>> /\ trace = <<>>

TicksTaken == (now \div DEFAULT_MAX_PROOF_AGE) + (now % DEFAULT_MAX_PROOF_AGE)

\* time passes: by a millisecond, or by the default maximum proof age
Tick ==
    /\ TicksTaken < MaxTicks
    /\ vres = NoCall
    /\ \E d \in {1, DEFAULT_MAX_PROOF_AGE} : now' = now + d
    /\ UNCHANGED <<keys, rng, vin, vres, proverVars, openacVars, runtimeVars>>

(***************************************************************************)
(* Inputs of the verification functions.                                   *)
(***************************************************************************)
GenuinePrepare == MkBytes("prepare", 1, 1, 1)
GenuineShow == MkBytes("show", 1, 1, 1)
\* a show proof made over another credential, bound to another commitment
OtherShow == MkBytes("show", 2, 2, 1)

Nonces == {"", "n1", "n2"}
Versions == {PROTOCOL_VERSION, "2.0.0"}
ProofPolicies == {PolicyAge18, PolicyAge21}
ExpectedPolicies == {PolicyAge18, PolicyAge21, PolicyAgeNat}
CustomMaxProofAges == {0, 1}
Timestamps == {0, 1}

ProofObjects ==
    [prepareProof : {GenuinePrepare, GarbageBytes},
     showProof : {GenuineShow, OtherShow, GarbageBytes},
     sharedCommitment : {MkBytes("blinds", 0, 1, 0)},
     policy : ProofPolicies,
     nonce : Nonces,
     timestamp : Timestamps,
     version : Versions]

MalformedSerializedProof ==
    [serializeProof(CHOOSE p \in ProofObjects : TRUE)
        EXCEPT !.showProof = MalformedText]

VerifyInputs ==
    ProofObjects
      \cup {serializeProof(p) : p \in {q \in ProofObjects :
                                          /\ q.prepareProof = GenuinePrepare
                                          /\ q.showProof = GenuineShow}}
      \cup {MalformedSerializedProof}

OptNonce == {<<>>} \cup {[expectedNonce |-> n] : n \in Nonces}
OptAge == {<<>>} \cup {[maxProofAge |-> a] : a \in CustomMaxProofAges}
OptPolicy == {<<>>} \cup {[expectedPolicy |-> p] : p \in ExpectedPolicies}

VerifyOptions == {a @@ b @@ c : a \in OptNonce, b \in OptAge, c \in OptPolicy}

VerifyingKeys == {"prepare", "show"}

\* the verifier runs quickVerify(proof, options)
QuickVerify ==
    /\ vres = NoCall
    /\ vres' = [fn |-> "quickVerify", time |-> now, threw |-> "none",
                result |-> quickVerify(vin.proof, vin.options, now),
                calls |-> <<>>]
    /\ UNCHANGED <<now, keys, rng, vin, proverVars, openacVars, runtimeVars>>

\* the verifier runs verifyProof(proof, verifyingKey, options) to completion
VerifyProof ==
    /\ vres = NoCall
    /\ \E vk \in VerifyingKeys, wasmLoads \in BOOLEAN :
         LET run == verifyProof(vin.proof, vk, vin.options, now, wasmLoads)
         IN  vres' = [fn |-> "verifyProof", time |-> now, threw |-> "none",
                      result |-> run.result, calls |-> run.calls]
    /\ UNCHANGED <<now, keys, rng, vin, proverVars, openacVars, runtimeVars>>

\* the arguments of OpenAC.verify that carry the verifier's options
ExpectedPolicyArg(options) ==
    IF Given(options, "expectedPolicy") THEN <<options.expectedPolicy>> ELSE <<>>

OptionsArg(options) ==
    [m \in DOMAIN options \ {"expectedPolicy"} |-> options[m]]

\* the verifier runs OpenAC.verify(proof, expectedPolicy, options) to completion
VerifyOpenAC ==
    /\ vres = NoCall
    /\ \E backendAvailable \in BOOLEAN,
          proc \in VerifyProcOutcomes(keys.show_proof, "show") :
         LET run == OpenACVerify(vin.proof, ExpectedPolicyArg(vin.options),
                                 OptionsArg(vin.options), now, backendAvailable,
                                 keys.show_proof, proc)
         IN  vres' = [fn |-> "OpenAC.verify", time |-> now, threw |-> run.threw,
                      result |-> run.result, calls |-> run.calls]
    /\ UNCHANGED <<now, keys, rng, vin, proverVars, openacVars, runtimeVars>>

\* the verifier side on its own: any proof object, any options, and a
\* working directory in which a show proof was or was not generated before
InitVerify ==
    /\ now = 0
    /\ keys \in {NoKeys, [NoKeys EXCEPT !.show_proof = GenuineShow]}
    /\ rng = 0
    /\ vin \in [proof : VerifyInputs, options : VerifyOptions]
    /\ vres = NoCall
    /\ ProverIdle /\ OpenACIdle /\ RuntimeIdle

NextVerify == Tick \/ QuickVerify \/ VerifyProof \/ VerifyOpenAC

SpecVerify == InitVerify /\ [][NextVerify]_vars

(***************************************************************************)
(* Properties of the verifier.                                             *)
(***************************************************************************)
Done == vres.fn # "none"

Returned == Done /\ vres.threw = "none"

\* the proof argument can be deserialized
DeserOk == ~(isSerializedProof(vin.proof) /\ deserializeThrows(vin.proof))

\* the proof the checks look at
VProof == IF isSerializedProof(vin.proof) THEN deserializeProof(vin.proof) ELSE vin.proof

CheapChecks == <<"version", "freshness", "nonce", "policy">>

CheckFails(k) ==
    CASE k = 1 -> VersionRejected(VProof)
      [] k = 2 -> ExpiredRejected(VProof, vin.options, vres.time)
      [] k = 3 -> NonceRejected(VProof, vin.options)
      [] k = 4 -> PolicyRejected(VProof, vin.options)

FailingChecks == {k \in 1..4 : CheckFails(k)}

EarliestFailing == CHOOSE k \in FailingChecks : \A j \in FailingChecks : k <= j

Contains(error, word) == \E i \in 1..Len(error) : error[i] = word

\* the check an error message belongs to
ErrorKind(error) ==
    IF error = <<>> THEN "other"
    ELSE CASE error[1] = "Unsupported" -> "version"
           [] error[1] = "Proof" -> "freshness"
           [] error[1] = "Nonce" -> "nonce"
           [] error[1] \in {"Policy", "Missing"} -> "policy"
           [] OTHER -> "other"

Kind(result) == IF result.valid THEN "none" ELSE ErrorKind(result.error)

\* C7: verifyProof and quickVerify report the error of the earliest failing
\* cheap check in the order version, freshness, nonce, policy, and report no
\* cheap-check error when none of the four fails.
C7_CheapChecksInOrder ==
    (Returned /\ vres.fn \in {"quickVerify", "verifyProof"} /\ DeserOk) =>
        IF FailingChecks # {}
        THEN /\ ~vres.result.valid
             /\ Kind(vres.result) = CheapChecks[EarliestFailing]
        ELSE Kind(vres.result) \in {"none", "other"}

\* C7 witness: a proof with an unsupported version and a wrong nonce was
\* verified and the version error was reported.
C7_Witness ==
    /\ Returned /\ vres.fn = "verifyProof" /\ DeserOk
    /\ {1, 3} \subseteq FailingChecks
    /\ Kind(vres.result) = "version"

\* C8: a backend verify call is made only for a proof that passed the
\* version, freshness, nonce and policy checks.
C8_BackendVerifyOnlyAfterCheapChecks ==
    (Done /\ vres.fn \in {"verifyProof", "OpenAC.verify"} /\ vres.calls # <<>>) =>
        DeserOk /\ FailingChecks = {}

\* C8 witness: OpenAC.verify reached the backend for a proof whose nonce and
\* policy were both checked against given expectations.
C8_Witness ==
    /\ Done /\ vres.fn = "OpenAC.verify" /\ vres.calls # <<>>
    /\ Truthy(vin.options, "expectedNonce")
    /\ Given(vin.options, "expectedPolicy")
    /\ Given(vin.options, "maxProofAge")

\* C9: a proof whose age is exactly maxProofAge is not rejected as expired,
\* and a proof one millisecond older is rejected as expired.
C9_FreshnessBoundary ==
    (Returned /\ vres.fn \in {"quickVerify", "verifyProof"} /\ DeserOk
       /\ ~VersionRejected(VProof)) =>
        LET age == vres.time - VProof.timestamp
            M == MaxProofAgeOf(vin.options)
        IN  /\ (age = M => Kind(vres.result) # "freshness")
            /\ (age = M + 1 => Kind(vres.result) = "freshness")

\* C9 witness: under the default maximum age, a proof aged exactly five
\* minutes passed quickVerify.
C9_Witness ==
    /\ Returned /\ vres.fn = "quickVerify" /\ DeserOk
    /\ ~Given(vin.options, "maxProofAge")
    /\ vres.time - VProof.timestamp = DEFAULT_MAX_PROOF_AGE
    /\ vres.result.valid

\* C10 (as claimed): whenever options.expectedNonce is given, whatever string
\* it is, a proof that reaches the nonce check is rejected with an error
\* containing "Nonce" if its nonce differs, and passes the check if equal.
C10_NonceCheckedWheneverGiven ==
    (Returned /\ vres.fn \in {"quickVerify", "verifyProof"} /\ DeserOk
       /\ Given(vin.options, "expectedNonce")
       /\ ~VersionRejected(VProof)
       /\ ~ExpiredRejected(VProof, vin.options, vres.time)) =>
        IF VProof.nonce # vin.options.expectedNonce
        THEN ~vres.result.valid /\ Contains(vres.result.error, "Nonce")
        ELSE Kind(vres.result) # "nonce"

\* no verifier process of the call was killed by a signal
NoSignal == \A i \in 1..Len(vres.calls) : vres.calls[i].exit # NullCode

\* C1 (as claimed): a verification reports valid only if the backend's verify
\* succeeded on the prepareProof and on the showProof of the verified proof.
\* (Stated for the executions in which no verifier process is killed by a
\* signal, so that a violation is one of verify itself.)
C1_ValidOnlyIfBothProofsVerified ==
    (Returned /\ vres.fn \in {"verifyProof", "OpenAC.verify"} /\ vres.result.valid
       /\ NoSignal) =>
        /\ DeserOk
        /\ \E i \in 1..Len(vres.calls) :
              vres.calls[i].bytes = VProof.prepareProof /\ vres.calls[i].ok
        /\ \E i \in 1..Len(vres.calls) :
              vres.calls[i].bytes = VProof.showProof /\ vres.calls[i].ok

\* C2 (as claimed): a verification reports valid only if the prepare proof
\* and the show proof are bound to the same shared commitment: a proof that
\* pairs a prepare proof of one credential with a show proof of another is
\* not reported valid.  (Stated for the executions in which no verifier
\* process is killed by a signal.)
C2_ValidOnlyIfSameCommitment ==
    (Returned /\ vres.fn \in {"verifyProof", "OpenAC.verify"} /\ vres.result.valid
       /\ NoSignal /\ DeserOk
       /\ VProof.prepareProof.circ = "prepare" /\ VProof.showProof.circ = "show") =>
        VProof.prepareProof.comm = VProof.showProof.comm

(***************************************************************************)
(* Inputs of the holder's operations.                                      *)
(***************************************************************************)
DiscBirthday == Disclosure("salt1", "roc_birthday", "0750101")
DiscNationality == Disclosure("salt2", "nationality", "TW")

\* every disclosure's digest is listed in _sd
CredListed ==
    SDJWT(1, "ES256", <<"iss", "_sd", "cnf", "vct">>,
          {computeDisclosureHash(DiscBirthday), computeDisclosureHash(DiscNationality)},
          <<DiscBirthday, DiscNationality>>)

\* a birthday disclosure is attached whose digest is not listed in _sd
CredUnlisted ==
    SDJWT(2, "ES256", <<"iss", "_sd", "cnf", "vct">>,
          {computeDisclosureHash(DiscNationality)},
          <<DiscBirthday, DiscNationality>>)

\* no birthday disclosure and no cnf key
CredNoBirthday ==
    SDJWT(3, "ES256", <<"iss", "_sd", "vct">>,
          {computeDisclosureHash(DiscNationality)},
          <<DiscNationality>>)

CredRS256 == SDJWT(4, "RS256", <<"iss", "_sd", "cnf", "vct">>, {}, <<>>)

CredBadSignature ==
    [SDJWT(5, "ES256", <<"iss", "_sd", "cnf", "vct">>, {}, <<>>)
        EXCEPT !.signature = "short"]

Credentials == {CredListed, CredUnlisted, CredNoBirthday, CredRS256, CredBadSignature}

OptFormat == {<<>>, [format |-> "mdoc"]}
OptDeviceBinding == {<<>>, [deviceBinding |-> "true"], [deviceBinding |-> "object"]}
OptIssuerKey == {<<>>, [issuerPublicKey |-> "issuerKey"]}

PrepareInputs ==
    {[credential |-> c] @@ f @@ d @@ i :
        c \in Credentials, f \in OptFormat, d \in OptDeviceBinding, i \in OptIssuerKey}

PolicyUndefined == << <<"height", Undefined>> >>
ShowPolicies == {PolicyAge18, PolicyNat, PolicyUndefined}
ShowNonces == {"n1", "n2"}

\* the private key the holder passes to showCredential: none, the one that
\* pairs with a device-binding key of the state, or another one
DevicePrivateKeys == {NoKey, "optionKey", "cnfKey", "otherKey"}

\* options.currentDate: absent, a valid date, or a date with one component
\* out of range
OptCurrentDate ==
    {<<>>} \cup
    {[currentDate |-> [year |-> d[1], month |-> d[2], day |-> d[3]]] :
        d \in {<<2025, 12, 31>>, <<2025, 13, 1>>, <<2025, 6, 0>>, <<0, 6, 15>>}}

NoState == [id |-> "none"]
NoProof == [version |-> "none"]

(***************************************************************************)
(* The holder on the WASM path: prepareCredential is called once on the    *)
(* chosen options, then showCredential and reblindPreparedState are called *)
(* on the PreparedState it returned.                                       *)
(***************************************************************************)
\* loadWasm(): the module is loaded once; a failed load stays failed
LoadOutcomes == IF wasmModule = "null" THEN BOOLEAN ELSE {wasmModule = "loaded"}

AfterLoad(reached, wasmLoads) ==
    IF reached THEN (IF wasmLoads THEN "loaded" ELSE "failed") ELSE wasmModule

Prepared == pres.fn = "prepareCredential" /\ pres.threw = "none"

PrepareCredential ==
    /\ pres = NoCall
    /\ \E wasmLoads \in LoadOutcomes :
         LET run == prepareCredential(pin, wasmLoads, rng, now)
         IN  /\ pres' = [fn |-> "prepareCredential", threw |-> run.threw,
                         state |-> IF run.threw = "none" THEN run.state ELSE NoState]
             /\ wlog' = wlog \o run.calls
             /\ rng' = rng + Len(run.calls)
             /\ wasmModule' = AfterLoad(run.loadReached, wasmLoads)
    /\ UNCHANGED <<now, keys, pin, shows, verifierVars, openacVars, runtimeVars>>

\* a show that keeps its reblinded prepare proof in the state
ShowCredential_KeepsReblinded ==
    /\ Prepared
    /\ Len(shows) < MaxShows
    /\ \E policy \in ShowPolicies, nonce \in ShowNonces, currentDate \in OptCurrentDate,
          devicePrivateKey \in DevicePrivateKeys, wasmLoads \in LoadOutcomes :
         LET options == [policy |-> policy, nonce |-> nonce] @@ currentDate
             run == showCredential(pres.state, options, devicePrivateKey,
                                   wasmLoads, rng, now)
         IN  /\ shows' = Append(shows,
                    [options |-> options, devicePrivateKey |-> devicePrivateKey,
                     threw |-> run.threw,
                     inputs |-> IF run.threw = "none" THEN <<run.inputs>> ELSE <<>>,
                     proof |-> IF run.threw = "none" THEN run.proof ELSE NoProof])
             /\ wlog' = wlog \o run.calls
             /\ rng' = rng + Len(run.calls)
             /\ wasmModule' = AfterLoad(run.loadReached, wasmLoads)
             /\ pres' = IF run.threw = "none"
                        THEN [pres EXCEPT !.state.prepareProof = run.proof.prepareProof]
                        ELSE pres
    /\ UNCHANGED <<now, keys, pin, verifierVars, openacVars, runtimeVars>>

ShowCredential ==
    /\ Prepared
    /\ Len(shows) < MaxShows
    /\ \E policy \in ShowPolicies, nonce \in ShowNonces, currentDate \in OptCurrentDate,
          devicePrivateKey \in DevicePrivateKeys, wasmLoads \in LoadOutcomes :
         LET options == [policy |-> policy, nonce |-> nonce] @@ currentDate
             run == showCredential(pres.state, options, devicePrivateKey,
                                   wasmLoads, rng, now)
         IN  /\ shows' = Append(shows,
                    [options |-> options, devicePrivateKey |-> devicePrivateKey,
                     threw |-> run.threw,
                     inputs |-> IF run.threw = "none" THEN <<run.inputs>> ELSE <<>>,
                     proof |-> IF run.threw = "none" THEN run.proof ELSE NoProof])
             /\ wlog' = wlog \o run.calls
             /\ rng' = rng + Len(run.calls)
             /\ wasmModule' = AfterLoad(run.loadReached, wasmLoads)
    /\ UNCHANGED <<now, keys, pin, pres, verifierVars, openacVars, runtimeVars>>

ReblindsMade ==
    Cardinality({i \in 1..Len(wlog) :
                    wlog[i].by = "reblindPreparedState" /\ wlog[i].op = "reblind"})

ReblindPreparedState ==
    /\ Prepared
    /\ ReblindsMade < MaxReblinds
    /\ \E wasmLoads \in LoadOutcomes :
         LET run == reblindPreparedState(pres.state, wasmLoads, rng)
         IN  /\ wlog' = wlog \o run.calls
             /\ rng' = rng + Len(run.calls)
             /\ wasmModule' = AfterLoad(TRUE, wasmLoads)
    /\ UNCHANGED <<now, keys, pin, pres, shows, verifierVars, openacVars, runtimeVars>>

InitProver ==
    /\ now = 0 /\ keys = NoKeys /\ rng = 0
    /\ VerifierIdle /\ OpenACIdle /\ RuntimeIdle
    /\ wasmModule = "null"
    /\ pin \in PrepareInputs
    /\ pres = NoCall /\ shows = <<>> /\ wlog = <<>>

NextProver == PrepareCredential \/ ShowCredential \/ ReblindPreparedState

SpecProver == InitProver /\ [][NextProver]_vars

(***************************************************************************)
(* The holder on the native path: the OpenAC singleton.  An operation      *)
(* (prepare, handle.show, handle.revoke) runs from one backend command to  *)
(* the next; operations that are in flight at the same time interleave at  *)
(* these points and share the backend's working directory.                 *)
(***************************************************************************)
NativePrepareInputs ==
    {[credential |-> CredNoBirthday, deviceBinding |-> "true",
      issuerPublicKey |-> "issuerKey"],
     [credential |-> CredListed],
     [credential |-> CredNoBirthday],
     [credential |-> CredRS256, issuerPublicKey |-> "issuerKey"]}

OpIds == 1..MaxOps

\* the number of operations that wait for a backend command
InFlight == Cardinality({k \in OpIds : ops[k].pc \notin {"idle", "done"}})

CanStart(k) == ops[k] = Idle /\ (IF k = 1 THEN TRUE ELSE ops[k - 1] # Idle)

\* the ids of the handles that prepare has returned
Handles ==
    {ops[k].id : k \in {j \in OpIds : /\ ops[j].kind = "prepare"
                                      /\ ops[j].pc = "done"
                                      /\ ops[j].threw = "none"}}

\* Map.set / Map.delete
MapSet(map, key, value) ==
    [x \in DOMAIN map \cup {key} |-> IF x = key THEN value ELSE map[x]]

\* a delete that leaves the entry in the map
MapDelete_KeepsEntry(map, key) == map

MapDelete(map, key) == [x \in DOMAIN map \ {key} |-> map[x]]

\* the artifact files an operation's own commands have written so far:
\* `before` and `after` are the files around one of its commands
Written(wrote, before, after) ==
    [f \in DOMAIN after |-> IF after[f] # before[f] THEN after[f] ELSE wrote[f]]

\* OpenAC.prepare(options) is called and runs to its first backend command
BeginPrepare ==
    \E k \in OpIds :
      /\ CanStart(k)
      /\ InFlight < MaxInFlight
      /\ \E options \in NativePrepareInputs,
            backendReady \in (IF nativeInitialized THEN {TRUE} ELSE BOOLEAN) :
           LET run == OpenACPrepareBegin(options, backendReady, now, k)
           IN  /\ nativeInitialized' = (nativeInitialized \/ backendReady)
               /\ ops' = [ops EXCEPT ![k] =
                    IF run.threw # "none"
                    THEN [kind |-> "prepare", pc |-> "done", threw |-> run.threw]
                    ELSE [kind |-> "prepare", pc |-> "setupPrepare", threw |-> "none",
                          id |-> run.id, prepared |-> run.prepared,
                          wrote |-> NoKeys]]
      /\ UNCHANGED <<now, keys, rng, credentials, verifierVars, proverVars, runtimeVars>>

\* a proving command of a prepare in flight ends
StepPrepare ==
    \E k \in OpIds :
      /\ ops[k].kind = "prepare" /\ ops[k].pc \notin {"done", "verify"}
      /\ \E proc \in ToolProcOutcomes(ops[k].pc, keys) :
           LET files == ToolEffect(ops[k].pc, proc, keys, rng + 1)
           IN  /\ keys' = files
               /\ rng' = IF files # keys THEN rng + 1 ELSE rng
               /\ ops' = [ops EXCEPT ![k] =
                    IF nativeTool(proc) # "none"
                    THEN [kind |-> "prepare", pc |-> "done", threw |-> nativeTool(proc)]
                    ELSE [@ EXCEPT !.pc = StepAfter(ops[k].pc),
                                   !.wrote = Written(ops[k].wrote, keys, files)]]
      /\ UNCHANGED <<now, nativeInitialized, credentials, verifierVars, proverVars, runtimeVars>>

\* the self-check of a prepare in flight ends and prepare runs to its end
FinishPrepare ==
    \E k \in OpIds :
      /\ ops[k].kind = "prepare" /\ ops[k].pc = "verify"
      /\ \E proc \in VerifyProcOutcomes(keys.prepare_proof, "prepare") :
           LET verified == nativeVerify(proc)
               threw == OpenACPrepareEnd(verified, keys)
           IN  /\ ops' = [ops EXCEPT ![k] =
                    [kind |-> "prepare", pc |-> "done", threw |-> threw,
                     id |-> @.id,
                     check |-> [bytes |-> keys.prepare_proof, exit |-> proc.code,
                                value |-> verified.threw = "none" /\ verified.value]]]
               /\ credentials' =
                    IF threw = "none"
                    THEN MapSet(credentials, ops[k].id,
                                PreparedCredential(ops[k].id, ops[k].prepared, keys))
                    ELSE credentials
      /\ UNCHANGED <<now, keys, rng, nativeInitialized, verifierVars, proverVars, runtimeVars>>

\* handle.show(options) is called and runs to its first backend command
BeginShow ==
    \E k \in OpIds :
      /\ CanStart(k)
      /\ InFlight < MaxInFlight
      /\ \E id \in Handles, policy \in {PolicyAge18, PolicyNat}, nonce \in ShowNonces :
           LET options == [policy |-> policy, nonce |-> nonce]
               threw == HandleShowBegin(id, credentials)
           IN  ops' = [ops EXCEPT ![k] =
                    IF threw # "none"
                    THEN [kind |-> "show", pc |-> "done", threw |-> threw, id |-> id,
                          options |-> options]
                    ELSE [kind |-> "show", pc |-> "proveShow", threw |-> "none",
                          id |-> id, options |-> options, cred |-> credentials[id],
                          wrote |-> NoKeys]]
      /\ UNCHANGED <<now, keys, rng, nativeInitialized, credentials,
                     verifierVars, proverVars, runtimeVars>>

\* the proving command of a show in flight ends
StepShow ==
    \E k \in OpIds :
      /\ ops[k].kind = "show" /\ ops[k].pc = "proveShow"
      /\ \E proc \in ToolProcOutcomes("proveShow", keys) :
           LET files == ToolEffect("proveShow", proc, keys, rng + 1)
           IN  /\ keys' = files
               /\ rng' = IF files # keys THEN rng + 1 ELSE rng
               /\ ops' = [ops EXCEPT ![k] =
                    IF nativeTool(proc) # "none"
                    THEN [@ EXCEPT !.pc = "done", !.threw = nativeTool(proc)]
                    ELSE [@ EXCEPT !.pc = "verifyShow",
                                   !.wrote = Written(ops[k].wrote, keys, files)]]
      /\ UNCHANGED <<now, nativeInitialized, credentials, verifierVars, proverVars, runtimeVars>>

\* the self-check of a show in flight ends and show runs to its end
FinishShow ==
    \E k \in OpIds :
      /\ ops[k].kind = "show" /\ ops[k].pc = "verifyShow"
      /\ \E proc \in VerifyProcOutcomes(keys.show_proof, "show") :
           LET threw == HandleShowEnd(nativeVerify(proc), keys)
           IN  ops' = [ops EXCEPT ![k] =
                    [kind |-> "show", pc |-> "done", threw |-> threw, id |-> @.id,
                     options |-> @.options, cred |-> @.cred,
                     proof |-> IF threw = "none"
                               THEN HandleShowProof(@.cred, @.options, keys, now)
                               ELSE NoProof]]
      /\ UNCHANGED <<now, keys, rng, nativeInitialized, credentials,
                     verifierVars, proverVars, runtimeVars>>

\* handle.revoke()
Revoke ==
    \E k \in OpIds :
      /\ CanStart(k)
      /\ \E id \in Handles :
           /\ credentials' = MapDelete(credentials, id)
           /\ ops' = [ops EXCEPT ![k] =
                         [kind |-> "revoke", pc |-> "done", threw |-> "none", id |-> id]]
      /\ UNCHANGED <<now, keys, rng, nativeInitialized, verifierVars, proverVars, runtimeVars>>

Init ==
    /\ now = 0 /\ keys = NoKeys /\ rng = 0
    /\ VerifierIdle /\ ProverIdle /\ OpenACIdle /\ RuntimeIdle

Next ==
    \/ BeginPrepare \/ StepPrepare \/ FinishPrepare
    \/ BeginShow \/ StepShow \/ FinishShow
    \/ Revoke

Spec == Init /\ [][Next]_vars

(***************************************************************************)
(* Properties of the holder.                                               *)
(***************************************************************************)
\* the claim names a credential vouches for: its own payload claims and the
\* disclosures whose digest its _sd array lists
AuthenticatedClaims(credential) ==
    {credential.payloadKeys[i] : i \in {j \in 1..Len(credential.payloadKeys) :
          /\ ~StartsWithUnderscore(credential.payloadKeys[j])
          /\ credential.payloadKeys[j] \notin ReservedKeys}}
      \cup {credential.disclosures[i].claimName :
              i \in {j \in 1..Len(credential.disclosures) :
                       computeDisclosureHash(credential.disclosures[j]) \in credential.sd}}

\* every condition of the policy is over a claim of the set (age is derived
\* from a birthdate claim)
SatisfiableFrom(policy, claims) ==
    \A i \in 1..Len(policy) :
        policy[i][2] # Undefined =>
            IF policy[i][1] = "age"
            THEN claims \cap {"roc_birthday", "birthdate"} # {}
            ELSE policy[i][1] \in claims

\* C3 (as claimed): a disclosure whose digest is not listed in the
\* credential's _sd array contributes no available claim to the prepared
\* state, and no show succeeds on a policy that only such a disclosure makes
\* satisfiable.
C3_UnlistedDisclosureExcluded ==
    Prepared =>
        /\ \A i \in 1..Len(pres.state.metadata.availableClaims) :
              pres.state.metadata.availableClaims[i]
                  \in AuthenticatedClaims(pin.credential)
        /\ \A j \in 1..Len(shows) :
              shows[j].threw = "none" =>
                  SatisfiableFrom(shows[j].options.policy,
                                  AuthenticatedClaims(pin.credential))

\* the completed shows of the native path
ShowsDone ==
    {k \in OpIds : ops[k].kind = "show" /\ ops[k].pc = "done" /\ ops[k].threw = "none"}

\* the prepare that recorded the credential was checked by a verifier
\* process that exited with 0
CleanlyPrepared(id) ==
    \E p \in OpIds : /\ ops[p].kind = "prepare" /\ ops[p].pc = "done"
                     /\ ops[p].threw = "none" /\ ops[p].id = id
                     /\ ops[p].check.exit = 0

\* C4 (as claimed): two shows of the same prepared credential under the same
\* policy with different nonces return proofs whose prepareProof bytes
\* differ and whose sharedCommitment is equal.  (Stated for a credential
\* whose prepare was checked by a verifier that exited with 0 and for shows
\* that each returned the show proof of their own prove command.)
C4_ShowsUnlinkable ==
    \A j \in ShowsDone, k \in ShowsDone :
        (/\ j # k
         /\ ops[j].cred = ops[k].cred
         /\ CleanlyPrepared(ops[j].id)
         /\ ops[j].options.policy = ops[k].options.policy
         /\ ops[j].options.nonce # ops[k].options.nonce
         /\ ops[j].proof.showProof # ops[k].proof.showProof) =>
            /\ ops[j].proof.prepareProof # ops[k].proof.prepareProof
            /\ ops[j].proof.sharedCommitment = ops[k].proof.sharedCommitment

\* the reblind calls made by shows
ShowReblinds ==
    {i \in 1..Len(wlog) : wlog[i].by = "showCredential" /\ wlog[i].op = "reblind"}

\* C5 (as claimed): no two shows pass the same blinds to the backend's
\* reblind.
C5_FreshBlindsPerShow ==
    \A i \in ShowReblinds, j \in ShowReblinds :
        i # j => wlog[i].blinds # wlog[j].blinds

\* C6 (as claimed): a PreparedState is returned only after the backend's
\* verify returned true on the prepare proof the state carries.
C6_PreparedOnlyAfterSelfCheck ==
    Prepared =>
        \E i \in 1..Len(wlog) :
            /\ wlog[i].op = "verify"
            /\ wlog[i].out = pres.state.prepareProof

\* OpenAC.prepare records a credential, and returns its handle, only after
\* its self-check returned true, and an operation that threw recorded none
PrepareRecordsAfterSelfCheck ==
    /\ \A id \in DOMAIN credentials :
          \E k \in OpIds : /\ ops[k].kind = "prepare" /\ ops[k].pc = "done"
                           /\ ops[k].threw = "none" /\ ops[k].id = id
                           /\ ops[k].check.value
    /\ \A k \in OpIds :
          (ops[k].kind = "prepare" /\ ops[k].pc = "done" /\ ops[k].threw = "none")
              => ops[k].check.value

(***************************************************************************)
(* comparePolicies on its own: two policies, one comparison.               *)
(***************************************************************************)
\* the policies compared: one or two keys, conditions of one or two
\* operators in either member order, a member whose value is undefined
ComparedPolicies ==
    { <<>>,
      PolicyAge18, PolicyAge21, PolicyNat, PolicyAgeNat,
      << <<"nationality", CondIn1>>, <<"age", CondGte18>> >>,
      << <<"age", << <<"gte", 18>>, <<"lt", 100>> >> >> >>,
      << <<"age", << <<"lt", 100>>, <<"gte", 18>> >> >> >>,
      << <<"age", <<>> >> >>,
      << <<"age", Undefined>> >>,
      << <<"age", CondGte18>>, <<"nationality", Undefined>> >> }

\* the verifier compares the expected policy with the proof's policy
ComparePolicies ==
    /\ vres = NoCall
    /\ vin.fn = "comparePolicies"
    /\ vres' = [fn |-> "comparePolicies", time |-> now, threw |-> "none",
                result |-> comparePolicies(vin.expected, vin.actual),
                calls |-> <<>>]
    /\ UNCHANGED <<now, keys, rng, vin, proverVars, openacVars, runtimeVars>>

InitPolicy ==
    /\ now = 0
    /\ keys = NoKeys
    /\ rng = 0
    /\ vin \in [fn : {"comparePolicies"}, expected : ComparedPolicies,
                actual : ComparedPolicies]
    /\ vres = NoCall
    /\ ProverIdle /\ OpenACIdle /\ RuntimeIdle

SpecPolicy == InitPolicy /\ [][ComparePolicies]_vars

\* the operator/bound members of a condition, whatever their order
Members(condition) == {condition[i] : i \in 1..Len(condition)}

\* the keys a policy has a condition for
ConditionKeys(policy) ==
    {policy[i][1] : i \in {j \in 1..Len(policy) : policy[j][2] # Undefined}}

\* C11 (as claimed): comparePolicies returns valid=true exactly when every
\* key of the expected policy is present in the actual policy with a
\* structurally identical condition: the same operators with the same bounds.
C11_PolicyMatchIsStructural ==
    vres.fn = "comparePolicies" =>
        (vres.result.valid <=>
            \A key \in ConditionKeys(vin.expected) :
                /\ key \in ConditionKeys(vin.actual)
                /\ Members(Lookup(vin.expected, key)) = Members(Lookup(vin.actual, key)))

\* C12 (as claimed): verification never throws: whatever the input and the
\* backend outcome, verifyProof, quickVerify and OpenAC.verify return a
\* result {valid, error} to the caller.
C12_VerificationNeverThrows ==
    (Done /\ vres.fn \in {"quickVerify", "verifyProof", "OpenAC.verify"}) =>
        /\ vres.threw = "none"
        /\ (~vres.result.valid => "error" \in DOMAIN vres.result)

\* the stage at which a verification result was decided
FailedAt(result) ==
    IF result.valid THEN "none"
    ELSE IF Contains(result.error, "Invalid") THEN "decode"
    ELSE IF ErrorKind(result.error) # "other" THEN ErrorKind(result.error)
    ELSE "backend"

CheapStages == {"decode", "version", "freshness", "nonce", "policy"}

\* quickVerify on the arguments, and at the time, of the finished call
QuickResult == quickVerify(vin.proof, vin.options, vres.time)

\* C13: quickVerify is the cheap-check prefix of verifyProof: quickVerify
\* returns valid=false exactly when verifyProof fails before the backend, at
\* the same check; and when quickVerify returns valid=true, verifyProof's
\* result is valid exactly when the backend loaded and accepted both proofs.
C13_QuickVerifyIsCheapPrefix ==
    (Returned /\ vres.fn = "verifyProof") =>
        /\ ~QuickResult.valid <=> FailedAt(vres.result) \in CheapStages
        /\ ~QuickResult.valid =>
              /\ FailedAt(QuickResult) = FailedAt(vres.result)
              /\ vres.calls = <<>>
        /\ QuickResult.valid =>
              /\ FailedAt(vres.result) \in {"none", "backend"}
              /\ vres.result.valid <=>
                    /\ Len(vres.calls) = 2
                    /\ \A i \in 1..2 : vres.calls[i].ok

\* C13 witness: verifyProof stopped at the policy check of a proof that
\* passed version, freshness and nonce, and quickVerify reports the same.
C13_Witness ==
    /\ Returned /\ vres.fn = "verifyProof" /\ DeserOk
    /\ FailingChecks = {4}
    /\ Truthy(vin.options, "expectedNonce")
    /\ FailedAt(vres.result) = "policy"
    /\ FailedAt(QuickResult) = "policy"

\* the shows of the native path that returned a proof
ReturnedShows ==
    {k \in OpIds : ops[k].kind = "show" /\ ops[k].pc = "done" /\ ops[k].threw = "none"}

\* the verifier processes after which nativeVerify("show") returns true
AcceptingVerifierRuns ==
    {proc \in VerifyProcOutcomes(keys.show_proof, "show") :
        nativeVerify(proc).threw = "none" /\ nativeVerify(proc).value}

\* C14: the proof a show(policy, nonce) returns after a successful prepare
\* carries that policy, that nonce and the supported protocol version, and
\* OpenAC.verify of it, at once, with the same expected policy and expected
\* nonce, returns valid=true whenever the backend verification succeeds.
C14_ShownProofVerifies ==
    \A k \in ReturnedShows :
        LET proof == ops[k].proof
            options == ops[k].options
        IN  /\ proof.policy = options.policy
            /\ proof.nonce = options.nonce
            /\ proof.version = PROTOCOL_VERSION
            /\ \A time \in {proof.timestamp, proof.timestamp + 1},
                  proc \in AcceptingVerifierRuns :
                  LET run == OpenACVerify(proof, <<options.policy>>,
                                          [expectedNonce |-> options.nonce],
                                          time, TRUE, keys.show_proof, proc)
                  IN  run.threw = "none" /\ run.result.valid

\* C14 witness: a show with a nationality policy and nonce n2 returned a
\* proof, and a verifier run that accepts it exists.
C14_Witness ==
    \E k \in ReturnedShows :
        /\ ops[k].options.policy = PolicyNat
        /\ ops[k].options.nonce = "n2"
        /\ AcceptingVerifierRuns # {}

\* the available claims of a credential's metadata, as a set
AvailableClaims(metadata) ==
    {metadata.availableClaims[i] : i \in 1..Len(metadata.availableClaims)}

\* the shows of the native path that fetched their credential
ShowsWithCredential ==
    {k \in OpIds : ops[k].kind = "show" /\ "cred" \in DOMAIN ops[k]}

\* C15 (as claimed): a show whose policy has a condition on a claim that is
\* neither an available claim of the credential nor the age derived from a
\* birthdate claim fails with PolicyError before any backend call and
\* returns no proof.
C15_UnsatisfiablePolicyRejected ==
    \A k \in ShowsWithCredential :
        ~SatisfiableFrom(ops[k].options.policy,
                         AvailableClaims(ops[k].cred.metadata)) =>
            ops[k].pc = "done" /\ ops[k].threw = "PolicyError"

\* the same for showCredential of the WASM path, which does validate
ShowCredentialRejectsUnsatisfiable ==
    \A i \in 1..Len(shows) :
        ~SatisfiableFrom(shows[i].options.policy,
                         AvailableClaims(pres.state.metadata)) =>
            shows[i].threw = "PolicyError"

\* a step in which a showCredential call ran to its end
ShowStep == Len(shows') = Len(shows) + 1

\* C16: a show leaves the PreparedState as it was: prepare proof, instance,
\* witness, shared blinds, metadata, claims and device key are the same
\* after the call, whether it returned a proof or threw.
C16_ShowLeavesStateUnchanged ==
    [][ShowStep => (Prepared /\ pres' = pres)]_vars

\* C16 witness: two shows of one prepared state returned proofs.
C16_Witness ==
    /\ Prepared
    /\ Len(shows) = 2
    /\ \A i \in 1..2 : shows[i].threw = "none"

\* the same for handle.show of the native path: no step of a show changes
\* the credentials map
HandleShowLeavesCredentials ==
    [][(BeginShow \/ StepShow \/ FinishShow) => credentials' = credentials]_vars

\* the shows of a state that is bound to a device key
BoundShows ==
    IF Prepared /\ pres.state.deviceKey # NoKey THEN 1..Len(shows) ELSE {}

\* C17 (as claimed): with device binding active, a show that is given no
\* private key, or one that does not pair with the device-binding public
\* key, fails without a proof, and the show inputs of a show that returned
\* carry a signature made with the device key.
C17_DeviceSignatureChecked ==
    \A i \in BoundShows :
        /\ shows[i].devicePrivateKey # pres.state.deviceKey => shows[i].threw # "none"
        /\ shows[i].threw = "none" => shows[i].inputs[1].sig = pres.state.deviceKey

\* the date components are in range: year > 0, month 1..12, day 1..31
DateInRange(inputs) ==
    /\ inputs.currentYear > 0
    /\ inputs.currentMonth \in 1..12
    /\ inputs.currentDay \in 1..31

\* C19 (as claimed): a show fails unless the current date it feeds to the
\* proving is in range in each component, for a date the caller supplies and
\* for the wall-clock date alike.
C19_CurrentDateRangeChecked ==
    \A i \in 1..Len(shows) :
        shows[i].threw = "none" => DateInRange(shows[i].inputs[1])

\* operation k starts, in this step, a show of a recorded credential that
\* is ready and was prepared, with a self-check that exited with code 0,
\* without device binding
StartsUnboundShow(k) ==
    /\ ops[k] = Idle /\ ops'[k].kind = "show"
    /\ ops'[k].id \in DOMAIN credentials
    /\ credentials[ops'[k].id].showReady
    /\ credentials[ops'[k].id].deviceKeys = NoKey
    /\ CleanlyPrepared(ops'[k].id)

\* C18 (as claimed): device binding is optional: handle.show of a
\* credential prepared with deviceBinding absent does not fail for lack of
\* a device key, it goes on to prove.
C18_ShowWithoutDeviceBinding ==
    [][\A k \in OpIds : StartsUnboundShow(k) => ops'[k].threw = "none"]_vars

\* operation k, a prepare whose own commands wrote a prepare proof and
\* shared blinds, ends in this step and records its credential
PrepareRecords(k) ==
    /\ ops[k].kind = "prepare" /\ ops[k].pc = "verify"
    /\ ops[k].wrote.prepare_proof # NoFile /\ ops[k].wrote.shared_blinds # NoFile
    /\ ops'[k].pc = "done" /\ ops'[k].threw = "none"

\* operation k, a show whose own command wrote a show proof, ends in this
\* step and returns its proof
ShowReturns(k) ==
    /\ ops[k].kind = "show" /\ ops[k].pc = "verifyShow"
    /\ ops[k].wrote.show_proof # NoFile
    /\ ops'[k].pc = "done" /\ ops'[k].threw = "none"

\* C20 (as claimed): under every interleaving of prepare and show
\* operations that share the working directory, the artifacts an operation
\* reads back and records are the ones its own commands wrote: the prepare
\* proof and the shared blinds of a prepare, the show proof of a show.
C20_OwnArtifactsRecorded ==
    [][\A k \in OpIds :
          /\ PrepareRecords(k) =>
                /\ credentials'[ops[k].id].prepareProof = ops[k].wrote.prepare_proof
                /\ credentials'[ops[k].id].sharedBlinds = ops[k].wrote.shared_blinds
          /\ ShowReturns(k) =>
                ops'[k].proof.showProof = ops[k].wrote.show_proof]_vars

\* the prepares of the native path that went on to the backend commands
PreparesInFlight ==
    {k \in OpIds : ops[k].kind = "prepare" /\ "prepared" \in DOMAIN ops[k]}

\* C21 (as claimed): a prepare whose options carry no issuer public key
\* fails with CredentialError: it never goes on to proving with a key taken
\* from elsewhere, and records no credential under such a key.
C21_NoSubstituteIssuerKey ==
    /\ \A k \in PreparesInFlight : ops[k].prepared.issuerPublicKey = "issuerKey"
    /\ \A id \in DOMAIN credentials : credentials[id].issuerPublicKey = "issuerKey"

\* the same for prepareCredential of the WASM path, which does fail
PrepareCredentialNeedsIssuerKey ==
    (pres # NoCall /\ ~Given(pin, "issuerPublicKey")) =>
        pres.threw = "CredentialError" /\ pres.state = NoState

\* C22 (as claimed): the id of a prepared credential is a function of the
\* credential content: two prepares of the same credential string give the
\* same id.
C22_IdDeterminedByCredential ==
    \A k1 \in PreparesInFlight, k2 \in PreparesInFlight :
        ops[k1].prepared.credential = ops[k2].prepared.credential =>
            ops[k1].id = ops[k2].id

\* the same for prepareCredential of the WASM path, whose id is the
\* truncated SHA-256 of the credential string
PrepareCredentialIdFromContent ==
    Prepared => pres.state.id = generateCredentialId(pin.credential)

\* handle.revoke() of the credential has completed
Revoked(id) == \E r \in OpIds : ops[r].kind = "revoke" /\ ops[r].id = id

\* operation k is, in this step, a show called on the handle of id
ShowCalled(k, id) ==
    ops[k] = Idle /\ ops'[k].kind = "show" /\ ops'[k].id = id

\* operation k is, in this step, a revoke of id
RevokeCalled(k, id) ==
    ops[k] = Idle /\ ops'[k].kind = "revoke" /\ ops'[k].id = id

\* C23: once handle.revoke() has completed, every show called on that
\* handle afterwards ends at once with CredentialError and without a proof;
\* and a revoke removes the record of its own credential only, every other
\* recorded credential stays as it was.
C23_RevokedNeverShown ==
    [][\A k \in OpIds, id \in Handles :
          /\ (ShowCalled(k, id) /\ Revoked(id)) =>
                /\ ops'[k].pc = "done" /\ ops'[k].threw = "CredentialError"
                /\ "proof" \notin DOMAIN ops'[k]
          /\ RevokeCalled(k, id) =>
                /\ id \notin DOMAIN credentials'
                /\ \A other \in DOMAIN credentials \ {id} :
                      /\ other \in DOMAIN credentials'
                      /\ credentials'[other] = credentials[other]]_vars

\* C23 witness: a device-bound credential was prepared and recorded, revoked,
\* and a show called on its handle ended with CredentialError.
C23_Witness ==
    \E p \in OpIds, r \in OpIds, k \in OpIds :
        /\ p < r /\ r < k
        /\ ops[p].kind = "prepare" /\ ops[p].pc = "done" /\ ops[p].threw = "none"
        /\ ops[r].kind = "revoke" /\ ops[r].id = ops[p].id
        /\ ops[k].kind = "show" /\ ops[k].id = ops[p].id
        /\ ops[k].threw = "CredentialError"
        /\ ops[p].id \notin DOMAIN credentials

(***************************************************************************)
(* The credential parser on its own: parseSDJWT is called once on a text,  *)
(* in a runtime with or without atob.                                      *)
(***************************************************************************)
DiscBirthdate == Disclosure("salt3", "birthdate", "1990-01-01")
DiscNotArray == [DiscNationality EXCEPT !.wellFormed = FALSE]

ParsedTexts ==
    {[SDJWT(0, alg, <<"iss", "_sd", "cnf", "vct">>, {}, disclosures)
         EXCEPT !.segments = segments, !.payloadJson = payloadJson,
                !.signature = signature, !.ending = ending] :
        alg \in {"ES256", "RS256"}, segments \in {2, 3}, payloadJson \in BOOLEAN,
        signature \in {"compact", "invalid"}, ending \in {"none", "tilde", "kbjwt"},
        disclosures \in {<<>>, <<DiscBirthday>>, <<DiscBirthday, DiscNotArray>>}}

ParseSDJWT ==
    /\ pin.fn = "parseSDJWT"
    /\ pres = NoCall
    /\ LET error == parseSDJWTError(pin.credential, pin.atob)
       IN  pres' = [fn |-> "parseSDJWT", threw |-> error.name,
                    message |-> error.message,
                    parsed |-> IF error.name = "none"
                               THEN <<parseSDJWT(pin.credential)>> ELSE <<>>]
    /\ UNCHANGED <<now, keys, rng, pin, wasmModule, shows, wlog,
                   verifierVars, openacVars, runtimeVars>>

ParseCalled == pres # NoCall /\ pres.fn = "parseSDJWT"

\* parseSDJWT never returns a credential whose header.alg is not ES256
ParseSDJWTReturnsOnlyES256 ==
    (ParseCalled /\ pres.threw = "none") => pres.parsed[1].header.alg = "ES256"

\* C24: a credential whose header names an algorithm other than ES256 is
\* rejected by parseSDJWT with a CredentialError "Unsupported algorithm",
\* whatever its payload, signature and disclosures are (they are not looked
\* at before the rejection)
C24_UnsupportedAlgorithmRejectedFirst ==
    (/\ ParseCalled
     /\ pin.credential.segments = 3 /\ pin.credential.headerJson
     /\ pin.credential.alg # "ES256") =>
        (pres.threw = "CredentialError" /\ pres.message = "Unsupported algorithm")

\* C25: whenever parseSDJWT fails, what it throws is a CredentialError
C25_ParseFailuresAreCredentialErrors ==
    ParseCalled => pres.threw \in {"none", "CredentialError"}

\* a text that is a well-formed ES256 SD-JWT with well-formed disclosures,
\* with or without a final "~" or key-binding JWT
WellFormedText(credential) ==
    /\ credential.segments = 3 /\ credential.headerJson /\ credential.payloadJson
    /\ credential.alg = "ES256" /\ credential.signature # "invalid"
    /\ \A i \in 1..Len(credential.disclosures) : credential.disclosures[i].wellFormed

\* C26: parseSDJWT of a well-formed text returns a keyBinding exactly when
\* the text ends with a key-binding JWT (a trailing part with a dot), and
\* its disclosures are the text's disclosure parts, the key-binding JWT not
\* among them
C26_KeyBindingIffDottedTrailingPart ==
    (ParseCalled /\ WellFormedText(pin.credential)) =>
        /\ pres.threw = "none"
        /\ (pres.parsed[1].keyBinding # <<>>) <=> (pin.credential.ending = "kbjwt")
        /\ Len(pres.parsed[1].disclosures) = Len(pin.credential.disclosures)

\* the same for texts that have a "~" and no key-binding JWT
ParseSDJWTNoKeyBindingAfterDisclosures ==
    (/\ ParseCalled /\ WellFormedText(pin.credential)
     /\ pin.credential.ending # "kbjwt"
     /\ (pin.credential.ending = "tilde" \/ pin.credential.disclosures # <<>>)) =>
        /\ pres.threw = "none"
        /\ pres.parsed[1].keyBinding = <<>>
        /\ Len(pres.parsed[1].disclosures) = Len(pin.credential.disclosures)

(***************************************************************************)
(* extractMetadata is called once on a parsed credential.                  *)
(***************************************************************************)
DiscBirthdayAgain == Disclosure("salt4", "roc_birthday", "0800202")

\* a disclosure of 200 characters in a credential whose "header.payload" has
\* 3000 characters
CredLong ==
    [SDJWT(6, "ES256", <<"iss", "_sd", "cnf", "vct">>, {},
           <<[Disclosure("salt5", "address", "long") EXCEPT !.length = 200]>>)
        EXCEPT !.messageLength = 3000]

\* credentials whose claim names repeat: in two disclosures, or in a payload
\* field and a disclosure
DescribedTexts ==
    {SDJWT(0, "ES256", payloadKeys, {}, disclosures) :
        payloadKeys \in {<<"iss", "_sd", "cnf", "vct">>,
                         <<"iss", "_sd", "nationality", "vct">>},
        disclosures \in {<<>>, <<DiscNationality>>, <<DiscBirthday, DiscNationality>>,
                         <<DiscBirthday, DiscNationality, DiscBirthdayAgain>>,
                         <<DiscNationality, DiscNationality>>}}

ExtractMetadata ==
    /\ pin.fn = "extractMetadata"
    /\ pres = NoCall
    /\ pres' = [fn |-> "extractMetadata", metadata |-> extractMetadata(pin.parsed)]
    /\ UNCHANGED <<now, keys, rng, pin, wasmModule, shows, wlog,
                   verifierVars, openacVars, runtimeVars>>

Occurrences(s, x) == Cardinality({i \in 1..Len(s) : s[i] = x})

\* C27: every claim name of a disclosure of the parsed credential occurs
\* exactly once in the availableClaims that extractMetadata returns
C27_DisclosedClaimListedOnce ==
    (pres # NoCall /\ pres.fn = "extractMetadata") =>
        \A i \in 1..Len(pin.parsed.disclosures) :
            Occurrences(pres.metadata.availableClaims,
                        pin.parsed.disclosures[i].claimName) = 1

\* metadata was extracted from a credential that discloses roc_birthday
\* twice and nationality both as a payload field and as a disclosure
C27_Witness ==
    /\ pres # NoCall /\ pres.fn = "extractMetadata"
    /\ InSeq(pin.parsed.payload.keys, "nationality")
    /\ Len(pin.parsed.disclosures) = 3
    /\ pres.metadata.availableClaims = <<"nationality", "vct", "roc_birthday">>

(***************************************************************************)
(* The circuit-input encoder.  The payload text is known by the places of  *)
(* what it holds: its keys stand in insertion order, the coordinates x and *)
(* y stand inside cnf, and the digests of _sd stand inside _sd in an order *)
(* the payload fixes.  A place is a character offset from the start of the *)
(* text and is never 0, where the opening brace stands.  A pattern is      *)
(* <<"key", c>> for the text "c":" or <<"hash", h, n>> for the first n     *)
(* characters of the hex digest h.                                         *)
(***************************************************************************)
Min(a, b) == IF a <= b THEN a ELSE b

Max(a, b) == IF a >= b THEN a ELSE b

\* An array of byte values is known by its number of entries, the number of
\* leading entries that hold content, and the set of values that occur in
\* the entries after the content.
Row(size, content) ==
    [size |-> size, content |-> content, rest |-> IF content < size THEN {0} ELSE {}]

\* payload.indexOf(pattern): -1 when the pattern does not occur
PayloadIndexOf(payload, pattern) ==
    LET KeyPlace(key) == 100 * (CHOOSE i \in 1..Len(payload.keys) : payload.keys[i] = key)
        listed == CHOOSE s \in [1..Cardinality(payload.sd) -> payload.sd] :
                      \A i, j \in DOMAIN s : s[i] = s[j] => i = j
    IN  IF pattern[1] = "key"
        THEN IF InSeq(payload.keys, "cnf")
             THEN KeyPlace("cnf") + (IF pattern[2] = "x" THEN 10 ELSE 20)
             ELSE -1
        ELSE IF InSeq(payload.keys, "_sd") /\ pattern[2] \in payload.sd
             THEN KeyPlace("_sd") + 10 * (CHOOSE i \in DOMAIN listed : listed[i] = pattern[2])
             ELSE -1

extractMatches(parsed, params) ==
    LET taken == Min(Len(parsed.disclosures), params.maxMatches - 2)
        \* a hex SHA-256 digest has 64 characters
        patterns == << <<"key", "x">>, <<"key", "y">> >> \o
                    [i \in 1..taken |->
                        <<"hash", parsed.disclosures[i].hash,
                          Min(64, params.maxSubstringLength)>>]
        PatternLength(pattern) == IF pattern[1] = "key" THEN 5 ELSE pattern[3]
        index(pattern) == PayloadIndexOf(parsed.payload, pattern)
        padding == params.maxMatches - Len(patterns)
    IN  [matchSubstring |-> patterns \o [i \in 1..padding |-> <<>>],
         \* the loop over the pattern's characters is not bounded by the
         \* row's width: a longer pattern lengthens the row
         matchSubstringRows |->
             [i \in 1..Len(patterns) |->
                 Row(Max(params.maxSubstringLength, PatternLength(patterns[i])),
                     PatternLength(patterns[i]))]
             \o [i \in 1..padding |-> Row(params.maxSubstringLength, 0)],
         matchLength |-> [i \in 1..Len(patterns) |-> PatternLength(patterns[i])]
                            \o [i \in 1..padding |-> 0],
         matchIndex |-> [i \in 1..Len(patterns) |->
                            IF index(patterns[i]) >= 0 THEN index(patterns[i]) ELSE 0]
                            \o [i \in 1..padding |-> 0],
         matchesCount |-> Len(patterns)]

\* claims[s] is the disclosure text the slot holds (<<>> for a slot of
\* zeros); ageClaimIndex counts slots from 0
encodeClaims(parsed, params) ==
    LET taken == Min(Len(parsed.disclosures), params.maxMatches - 2)
        padding == params.maxMatches - 2 - taken
        IsAgeClaim(i) == parsed.disclosures[i].claimName \in {"roc_birthday", "birthdate"}
        ageSlots == {i + 1 : i \in {j \in 1..taken : IsAgeClaim(j)}}
        EncodedLength(i) == parsed.disclosures[i].encoded.length
    IN  [claims |-> << <<>>, <<>> >>
                    \o [i \in 1..taken |-> <<parsed.disclosures[i].encoded>>]
                    \o [i \in 1..padding |-> <<>>],
         claimRows |-> [i \in 1..2 |-> Row(params.maxClaimsLength, 0)]
                    \o [i \in 1..taken |->
                           Row(params.maxClaimsLength,
                               Min(EncodedLength(i), params.maxClaimsLength))]
                    \o [i \in 1..padding |-> Row(params.maxClaimsLength, 0)],
         claimLengths |-> <<0, 0>>
                    \o [i \in 1..taken |-> EncodedLength(i)]
                    \o [i \in 1..padding |-> 0],
         decodeFlags |-> <<0, 0>> \o [i \in 1..taken |-> 1] \o [i \in 1..padding |-> 0],
         ageClaimIndex |-> IF ageSlots = {} THEN 0
                           ELSE CHOOSE s \in ageSlots : \A t \in ageSlots : t <= s]

(***************************************************************************)
(* generatePrepareInputs is called once on a parsed credential and circuit *)
(* parameters; of the inputs it returns, the signature values and the key  *)
(* coordinates are left out.                                               *)
(***************************************************************************)
GeneratePrepareInputs ==
    /\ pin.fn = "generatePrepareInputs"
    /\ pres = NoCall
    /\ pres' = IF generatePrepareInputsThrows(pin.parsed)
               THEN [fn |-> "generatePrepareInputs", threw |-> "Error", inputs |-> <<>>]
               ELSE [fn |-> "generatePrepareInputs", threw |-> "none",
                     inputs |-> <<
                         \* the loop over the message bytes is not bounded by
                         \* maxMessageLength
                         [message |-> Row(Max(pin.params.maxMessageLength,
                                              pin.parsed.messageLength),
                                          pin.parsed.messageLength),
                          messageLength |-> pin.parsed.messageLength]
                         @@ extractMatches(pin.parsed, pin.params)
                         @@ encodeClaims(pin.parsed, pin.params)>>]
    /\ UNCHANGED <<now, keys, rng, pin, wasmModule, shows, wlog,
                   verifierVars, openacVars, runtimeVars>>

Encoded == pres # NoCall /\ pres.fn = "generatePrepareInputs"

\* the disclosures of the parsed credential that the returned inputs hold
EncodedDisclosures ==
    {i \in 1..Len(pin.parsed.disclosures) :
        \E s \in 1..Len(pres.inputs[1].claims) :
            pres.inputs[1].claims[s] = <<pin.parsed.disclosures[i].encoded>>}

\* C28: on a credential with more disclosures than maxMatches - 2 the
\* encoder fails with CredentialError; inputs that it returns hold every
\* disclosure of the credential
C28_TooManyDisclosuresFailFast ==
    Encoded =>
        /\ Len(pin.parsed.disclosures) > pin.params.maxMatches - 2 =>
               pres.threw = "CredentialError"
        /\ pres.threw = "none" =>
               EncodedDisclosures = 1..Len(pin.parsed.disclosures)

Returned_Inputs == Encoded /\ pres.threw = "none"

AgeClaimNames == {"roc_birthday", "birthdate"}

\* C29: an ageClaimIndex that the encoder returns is the slot index, at
\* least 2, of a disclosure named roc_birthday or birthdate
C29_AgeClaimIndexIsBirthdateSlot ==
    Returned_Inputs =>
        LET index == pres.inputs[1].ageClaimIndex
        IN  /\ index >= 2
            /\ index - 1 <= Len(pin.parsed.disclosures)
            /\ pin.parsed.disclosures[index - 1].claimName \in AgeClaimNames
            /\ pres.inputs[1].claims[index + 1] =
                   <<pin.parsed.disclosures[index - 1].encoded>>

\* when a birthdate disclosure is among the encoded ones, the index is the
\* slot of the last of them
EncodeClaimsIndexOfEncodedBirthdate ==
    Returned_Inputs =>
        LET index == pres.inputs[1].ageClaimIndex
            encoded == {i \in 1..Len(pin.parsed.disclosures) :
                           /\ i <= pin.params.maxMatches - 2
                           /\ pin.parsed.disclosures[i].claimName \in AgeClaimNames}
        IN  encoded # {} => (index - 1 \in encoded /\ \A i \in encoded : i <= index - 1)

\* C30: a match slot whose pattern does not occur in the payload has
\* matchIndex 0 and matchLength 0
C30_AbsentPatternHasZeroLength ==
    Returned_Inputs =>
        \A s \in 1..pres.inputs[1].matchesCount :
            PayloadIndexOf(pin.parsed.payload, pres.inputs[1].matchSubstring[s]) < 0 =>
                (pres.inputs[1].matchIndex[s] = 0 /\ pres.inputs[1].matchLength[s] = 0)

\* no slot has a negative matchIndex; a slot without a pattern has index 0
\* and length 0
ExtractMatchesIndexNeverNegative ==
    Returned_Inputs =>
        /\ Len(pres.inputs[1].matchIndex) = pin.params.maxMatches
        /\ \A s \in 1..pin.params.maxMatches :
              /\ pres.inputs[1].matchIndex[s] >= 0
              /\ s > pres.inputs[1].matchesCount =>
                    (pres.inputs[1].matchIndex[s] = 0 /\ pres.inputs[1].matchLength[s] = 0)

(***************************************************************************)
(* The second encoder, generatePrepareCircuitInputs of circuit-inputs.ts,  *)
(* with its own extractMatchPatterns and encodeClaims.  Its digest pattern *)
(* is the base64url text of the SHA-256 digest, 43 characters.             *)
(***************************************************************************)
extractMatchPatterns(parsed, params) ==
    LET taken == Min(Len(parsed.disclosures), params.maxMatches - 2)
        patterns == << <<"key", "x">>, <<"key", "y">> >> \o
                    [i \in 1..taken |-> <<"hash", parsed.disclosures[i].hash, 43>>]
        PatternLength(pattern) == IF pattern[1] = "key" THEN 5 ELSE pattern[3]
        index(pattern) == PayloadIndexOf(parsed.payload, pattern)
        padding == params.maxMatches - Len(patterns)
    IN  [matchSubstring |-> patterns \o [i \in 1..padding |-> <<>>],
         matchSubstringRows |->
             [i \in 1..Len(patterns) |->
                 Row(params.maxSubstringLength,
                     Min(PatternLength(patterns[i]), params.maxSubstringLength))]
             \o [i \in 1..padding |-> Row(params.maxSubstringLength, 0)],
         matchLength |-> [i \in 1..Len(patterns) |-> PatternLength(patterns[i])]
                            \o [i \in 1..padding |-> 0],
         matchIndex |-> [i \in 1..Len(patterns) |->
                            IF index(patterns[i]) >= 0 THEN index(patterns[i]) ELSE 0]
                            \o [i \in 1..padding |-> 0],
         matchesCount |-> Len(patterns)]

\* encodeClaims of circuit-inputs.ts: the flag of a disclosure slot is 1
\* only when the disclosure is named roc_birthday or birthdate
circuitInputs_encodeClaims(parsed, params) ==
    LET taken == Min(Len(parsed.disclosures), params.maxMatches - 2)
        padding == params.maxMatches - 2 - taken
        IsAgeClaim(i) == parsed.disclosures[i].claimName \in {"roc_birthday", "birthdate"}
        ageSlots == {i + 1 : i \in {j \in 1..taken : IsAgeClaim(j)}}
        EncodedLength(i) == parsed.disclosures[i].encoded.length
        \* a row gets the byte 128 at its first entry after the content
        Padded(row) == IF row.content < row.size
                       THEN [row EXCEPT !.rest = {128} \cup
                                (IF row.content + 1 < row.size THEN {0} ELSE {})]
                       ELSE row
    IN  [claims |-> << <<>>, <<>> >>
                    \o [i \in 1..taken |-> <<parsed.disclosures[i].encoded>>]
                    \o [i \in 1..padding |-> <<>>],
         claimRows |-> [i \in 1..2 |-> Padded(Row(params.maxClaimsLength, 0))]
                    \o [i \in 1..taken |->
                           Padded(Row(params.maxClaimsLength,
                                      Min(EncodedLength(i), params.maxClaimsLength)))]
                    \o [i \in 1..padding |-> Padded(Row(params.maxClaimsLength, 0))],
         claimLengths |-> <<0, 0>>
                    \o [i \in 1..taken |-> EncodedLength(i)]
                    \o [i \in 1..padding |-> 0],
         decodeFlags |-> <<0, 0>>
                    \o [i \in 1..taken |-> IF IsAgeClaim(i) THEN 1 ELSE 0]
                    \o [i \in 1..padding |-> 0],
         ageClaimIndex |-> IF ageSlots = {} THEN 0
                           ELSE CHOOSE s \in ageSlots : \A t \in ageSlots : t <= s]

GeneratePrepareCircuitInputs ==
    /\ pin.fn = "generatePrepareCircuitInputs"
    /\ pres = NoCall
    /\ pres' = IF pin.parsed.signature # "compact"
               THEN [fn |-> "generatePrepareCircuitInputs", threw |-> "Error",
                     inputs |-> <<>>]
               ELSE [fn |-> "generatePrepareCircuitInputs", threw |-> "none",
                     inputs |-> <<
                         [message |-> Row(pin.params.maxMessageLength,
                                          Min(pin.parsed.messageLength,
                                              pin.params.maxMessageLength)),
                          messageLength |-> pin.parsed.messageLength]
                         @@ extractMatchPatterns(pin.parsed, pin.params)
                         @@ circuitInputs_encodeClaims(pin.parsed, pin.params)>>]
    /\ UNCHANGED <<now, keys, rng, pin, wasmModule, shows, wlog,
                   verifierVars, openacVars, runtimeVars>>

\* either encoder has returned inputs
EncoderReturned ==
    /\ pres # NoCall
    /\ pres.fn \in {"generatePrepareInputs", "generatePrepareCircuitInputs"}
    /\ pres.threw = "none"

\* C31: in the inputs either encoder returns, decodeFlags is 0 for slots 0
\* and 1 and 1 for every slot that holds a disclosure
C31_DecodeFlagsMarkDisclosureSlots ==
    EncoderReturned =>
        /\ pres.inputs[1].decodeFlags[1] = 0 /\ pres.inputs[1].decodeFlags[2] = 0
        /\ \A s \in 1..Len(pres.inputs[1].claims) :
              pres.inputs[1].claims[s] # <<>> => pres.inputs[1].decodeFlags[s] = 1

\* the same for the encoder of parser.ts alone
ParserEncodeClaimsFlags ==
    Returned_Inputs =>
        /\ pres.inputs[1].decodeFlags[1] = 0 /\ pres.inputs[1].decodeFlags[2] = 0
        /\ \A s \in 1..Len(pres.inputs[1].claims) :
              pres.inputs[1].claims[s] # <<>> <=> pres.inputs[1].decodeFlags[s] = 1

(***************************************************************************)
(* The credential functions on their own: one of them is called once on a  *)
(* chosen input.                                                           *)
(***************************************************************************)
InitParser ==
    /\ now = 0 /\ keys = NoKeys /\ rng = 0
    /\ VerifierIdle /\ OpenACIdle /\ RuntimeIdle
    /\ wasmModule = "null"
    /\ pin \in {[fn |-> "parseSDJWT", credential |-> c, atob |-> atob] :
                   c \in ParsedTexts, atob \in BOOLEAN}
               \cup {[fn |-> "extractMetadata", parsed |-> parseSDJWT(c)] :
                        c \in DescribedTexts}
               \cup {[fn |-> f, parsed |-> parseSDJWT(c),
                      params |-> [maxMessageLength |-> 1920, maxMatches |-> m,
                                  maxSubstringLength |-> l, maxClaimsLength |-> 128]] :
                        c \in {t \in Credentials \cup DescribedTexts \cup {CredLong} :
                                  ~parseSDJWTThrows(t)},
                        m \in {3, 4}, l \in {40, 50},
                        f \in {"generatePrepareInputs", "generatePrepareCircuitInputs"}}
    /\ pres = NoCall /\ shows = <<>> /\ wlog = <<>>

NextParser ==
    \/ ParseSDJWT \/ ExtractMetadata
    \/ GeneratePrepareInputs \/ GeneratePrepareCircuitInputs

SpecParser == InitParser /\ [][NextParser]_vars

(***************************************************************************)
(* Proof serialization on its own: serializeProof is called on a Proof     *)
(* whose byte arrays are given by content, in a runtime with or without    *)
(* btoa, and deserializeProof is called on what it returned, directly or   *)
(* after JSON.parse(JSON.stringify(...)).  With btoa, base64Encode spreads *)
(* the bytes into the arguments of one call of String.fromCharCode, which  *)
(* throws RangeError when the engine's limit on arguments is exceeded; the *)
(* limit is MaxArguments here.                                             *)
(***************************************************************************)
MaxBytes == 4
MaxArguments == 3

RECURSIVE ByteArrays(_)
ByteArrays(n) ==
    IF n = 0 THEN {<<>>}
    ELSE ByteArrays(n - 1) \cup
         {Append(bytes, b) : bytes \in {a \in ByteArrays(n - 1) : Len(a) = n - 1},
                             b \in {0, 251, 255}}

SerializedProofs ==
    [prepareProof : {[raw |-> bytes] : bytes \in ByteArrays(MaxBytes)},
     showProof : {[raw |-> <<255, 251>>]},
     sharedCommitment : {[raw |-> <<>>], [raw |-> <<251>>]},
     policy : {PolicyAge18, PolicyUndefined},
     nonce : {"n1"}, timestamp : {1}, version : {PROTOCOL_VERSION}]

serializeProofThrows(proof, btoa) ==
    /\ btoa
    /\ \E field \in {"prepareProof", "showProof", "sharedCommitment"} :
          Len(proof[field].raw) > MaxArguments

\* JSON.parse(JSON.stringify(serialized)): texts, numbers and conditions
\* come back as they were, a policy member whose value is undefined is gone
JsonParseStringify(serialized) ==
    [serialized EXCEPT
        !.policy = SelectSeq(serialized.policy, LAMBDA member : member[2] # Undefined)]

SerializeProof ==
    /\ pin.fn = "serializeProof"
    /\ pres = NoCall
    /\ pres' = IF serializeProofThrows(pin.proof, pin.btoa)
               THEN [fn |-> "serializeProof", threw |-> "RangeError", serialized |-> <<>>]
               ELSE [fn |-> "serializeProof", threw |-> "none",
                     serialized |-> <<serializeProof(pin.proof)>>]
    /\ UNCHANGED <<now, keys, rng, pin, wasmModule, shows, wlog,
                   verifierVars, openacVars, runtimeVars>>

DeserializeProof ==
    /\ pres.fn = "serializeProof" /\ pres.threw = "none"
    /\ LET serialized == IF pin.viaJson THEN JsonParseStringify(pres.serialized[1])
                         ELSE pres.serialized[1]
       IN  pres' = IF deserializeThrows(serialized)
                   THEN [fn |-> "deserializeProof", threw |-> "Error", proof |-> <<>>]
                   ELSE [fn |-> "deserializeProof", threw |-> "none",
                         proof |-> <<deserializeProof(serialized)>>]
    /\ UNCHANGED <<now, keys, rng, pin, wasmModule, shows, wlog,
                   verifierVars, openacVars, runtimeVars>>

InitSerialize ==
    /\ now = 0 /\ keys = NoKeys /\ rng = 0
    /\ VerifierIdle /\ OpenACIdle /\ RuntimeIdle
    /\ wasmModule = "null"
    /\ pin \in {[fn |-> "serializeProof", proof |-> p, btoa |-> b, viaJson |-> j] :
                   p \in SerializedProofs, b \in BOOLEAN, j \in BOOLEAN}
    /\ pres = NoCall /\ shows = <<>> /\ wlog = <<>>

SpecSerialize == InitSerialize /\ [][SerializeProof \/ DeserializeProof]_vars

\* the policy without the members whose value is undefined
DefinedMembers(policy) == SelectSeq(policy, LAMBDA member : member[2] # Undefined)

\* a deserialized proof equals the proof that was serialized, field by field
RoundTripEqual ==
    /\ pres.threw = "none"
    /\ pres.proof[1].prepareProof = pin.proof.prepareProof
    /\ pres.proof[1].showProof = pin.proof.showProof
    /\ pres.proof[1].sharedCommitment = pin.proof.sharedCommitment
    /\ DefinedMembers(pres.proof[1].policy) = DefinedMembers(pin.proof.policy)
    /\ pres.proof[1].nonce = pin.proof.nonce
    /\ pres.proof[1].timestamp = pin.proof.timestamp
    /\ pres.proof[1].version = pin.proof.version

\* C32: serializeProof returns for every Proof, and deserializeProof of what
\* it returned, directly or after a JSON round trip, equals the Proof in
\* all seven fields
C32_SerializationRoundTrip ==
    /\ pres.fn = "serializeProof" => pres.threw = "none"
    /\ pres.fn = "deserializeProof" => RoundTripEqual

\* whenever serializeProof returns, the round trip is lossless
DeserializeInvertsSerialize ==
    pres.fn = "deserializeProof" => RoundTripEqual

\* prepare k invokes the backend command `step` in this step
Invokes(k, step) ==
    /\ ops[k].kind = "prepare" /\ ops'[k].kind = "prepare"
    /\ ops[k].pc # step /\ ops'[k].pc = step

\* C33: a prepare invokes generateBlinds only after its own prove command
\* has produced the prepare proof (the order is setup, prove,
\* generateBlinds, verify)
C33_BlindsAfterPrepareProof ==
    [][\A k \in OpIds :
          Invokes(k, "generateBlinds") => ops'[k].wrote.prepare_proof # NoFile]_vars

\* the order OpenAC.prepare keeps: both setups, the blinds, the proof, the
\* reblinding, and verify last
PrepareProvesAfterSetup ==
    [][\A k \in OpIds :
          /\ Invokes(k, "provePrepare") => ops[k].pc = "generateBlinds"
          /\ Invokes(k, "setupShow") => ops[k].pc = "setupPrepare"
          /\ Invokes(k, "generateBlinds") => ops[k].pc = "setupShow"
          /\ Invokes(k, "reblind") => ops[k].pc = "provePrepare"
          /\ Invokes(k, "verify") => ops[k].pc = "reblind"]_vars

\* C34: the arrays either encoder returns have their fixed sizes, hold only
\* zero bytes after their content, and no recorded length is greater than
\* the capacity it refers to
C34_EncoderOutputsFixedSize ==
    EncoderReturned =>
        LET out == pres.inputs[1]
            params == pin.params
            Zeros(row) == row.rest \subseteq {0}
        IN  /\ out.message.size = params.maxMessageLength /\ Zeros(out.message)
            /\ out.messageLength <= params.maxMessageLength
            /\ \A field \in {"matchSubstring", "matchSubstringRows", "matchLength",
                             "matchIndex", "claims", "claimRows", "claimLengths",
                             "decodeFlags"} : Len(out[field]) = params.maxMatches
            /\ \A s \in 1..params.maxMatches :
                  /\ out.matchSubstringRows[s].size = params.maxSubstringLength
                  /\ Zeros(out.matchSubstringRows[s])
                  /\ out.matchLength[s] <= params.maxSubstringLength
                  /\ out.claimRows[s].size = params.maxClaimsLength
                  /\ Zeros(out.claimRows[s])
                  /\ out.claimLengths[s] <= params.maxClaimsLength

\* every array of slots has maxMatches entries, in both encoders
EncoderSlotArraysFixedSize ==
    EncoderReturned =>
        \A field \in {"matchSubstring", "matchSubstringRows", "matchLength",
                      "matchIndex", "claims", "claimRows", "claimLengths",
                      "decodeFlags"} : Len(pres.inputs[1][field]) = pin.params.maxMatches

\* the encoder of parser.ts on a credential whose texts fit the capacities
ParserEncoderFitsWhenTextsFit ==
    (/\ Returned_Inputs
     /\ pin.parsed.messageLength <= pin.params.maxMessageLength
     /\ \A i \in 1..Len(pin.parsed.disclosures) :
           pin.parsed.disclosures[i].encoded.length <= pin.params.maxClaimsLength) =>
        LET out == pres.inputs[1]
        IN  /\ out.message.size = pin.params.maxMessageLength
            /\ out.message.rest \subseteq {0}
            /\ \A s \in 1..pin.params.maxMatches :
                  /\ out.matchSubstringRows[s].size = pin.params.maxSubstringLength
                  /\ out.matchSubstringRows[s].rest \subseteq {0}
                  /\ out.matchLength[s] <= pin.params.maxSubstringLength
                  /\ out.claimRows[s].size = pin.params.maxClaimsLength
                  /\ out.claimRows[s].rest \subseteq {0}
                  /\ out.claimLengths[s] <= pin.params.maxClaimsLength

(***************************************************************************)
(* The JWT (prepare) circuit as a set of constraints on a witness.  The    *)
(* witness is what the prover feeds the circuit: the signed message, known *)
(* by its payload, and the private inputs matchesCount, matchSubstring,    *)
(* matchIndex, claims, claimLengths, decodeFlags and ageClaimIndex, which  *)
(* the prover is free to choose.  Slots are counted from 1 in the          *)
(* sequences and from 0 in matchesCount and ageClaimIndex.  A claim row is *)
(* <<text>> for the disclosure text it holds; a pattern is as in the       *)
(* encoders.  The signature check (ES256) holds for the message of every   *)
(* witness here.                                                           *)
(***************************************************************************)
\* ClaimComparator: in every slot whose claimLength is not 0, the SHA-256
\* digest of the claim row equals the digest that the match substring spells
ClaimComparator(w) ==
    \A s \in 1..Len(w.claims) :
        w.claimLengths[s] # 0 =>
            /\ w.claims[s] # <<>>
            /\ w.matchSubstring[s] = <<"hash", computeDisclosureHash(w.claims[s][1]), 43>>

\* PayloadSubstringMatcher: in every slot below matchesCount the match
\* substring stands in the payload at matchIndex
PayloadSubstringMatcher(w) ==
    \A s \in 1..Len(w.matchSubstring) :
        s - 1 < w.matchesCount =>
            /\ PayloadIndexOf(w.payload, w.matchSubstring[s]) >= 0
            /\ w.matchIndex[s] = PayloadIndexOf(w.payload, w.matchSubstring[s])

\* the disclosure the issuer listed in the payload, and one it never signed
DiscForged == Disclosure("salt9", "roc_birthday", "0010101")

Witnesses ==
    {[payload |-> parseSDJWT(CredListed).payload,
      matchesCount |-> matchesCount,
      matchSubstring |-> << <<"key", "x">>, <<"key", "y">>,
                            <<"hash", computeDisclosureHash(hashed), 43>> >>,
      matchIndex |-> <<PayloadIndexOf(parseSDJWT(CredListed).payload, <<"key", "x">>),
                       PayloadIndexOf(parseSDJWT(CredListed).payload, <<"key", "y">>),
                       matchIndex>>,
      claims |-> << <<>>, <<>>, <<claim>> >>,
      claimLengths |-> <<0, 0, claimLength>>,
      decodeFlags |-> <<0, 0, decodeFlag>>,
      ageClaimIndex |-> ageClaimIndex] :
        matchesCount \in 0..3, hashed \in {DiscBirthday, DiscForged},
        matchIndex \in {0, PayloadIndexOf(parseSDJWT(CredListed).payload,
                              <<"hash", computeDisclosureHash(DiscBirthday), 43>>)},
        claim \in {DiscBirthday, DiscForged}, claimLength \in {0, 48},
        decodeFlag \in {0, 1}, ageClaimIndex \in 0..2}

\* the circuit is run on the witness: whether its constraints are satisfied
\* and the ageClaim it outputs, the decoded claim of the selected slot
\* (<<>> stands for the zeros that a slot with flag 0 or length 0 decodes to)
JWT ==
    /\ pin.fn = "JWT"
    /\ pres = NoCall
    /\ LET w == pin.witness
           s == w.ageClaimIndex + 1
       IN  pres' = [fn |-> "JWT",
                    satisfied |-> ClaimComparator(w) /\ PayloadSubstringMatcher(w),
                    ageClaim |-> IF w.decodeFlags[s] = 1 /\ w.claimLengths[s] # 0
                                 THEN w.claims[s] ELSE <<>>]
    /\ UNCHANGED <<now, keys, rng, pin, wasmModule, shows, wlog,
                   verifierVars, openacVars, runtimeVars>>

InitCircuit ==
    /\ now = 0 /\ keys = NoKeys /\ rng = 0
    /\ VerifierIdle /\ OpenACIdle /\ RuntimeIdle
    /\ wasmModule = "null"
    /\ pin \in {[fn |-> "JWT", witness |-> w] : w \in Witnesses}
    /\ pres = NoCall /\ shows = <<>> /\ wlog = <<>>

SpecCircuit == InitCircuit /\ [][JWT]_vars

\* C35: in every satisfying witness the slot that ageClaimIndex selects
\* holds a claim of non-zero length whose digest is the slot's match
\* substring, and the slot is below matchesCount, so that the substring is
\* checked to stand in the signed payload
C35_AgeClaimBoundToPayload ==
    (pres.fn = "JWT" /\ pres.satisfied) =>
        LET w == pin.witness
            s == w.ageClaimIndex + 1
        IN  /\ w.claimLengths[s] # 0
            /\ w.matchSubstring[s] = <<"hash", computeDisclosureHash(w.claims[s][1]), 43>>
            /\ w.ageClaimIndex < w.matchesCount
            /\ PayloadIndexOf(w.payload, w.matchSubstring[s]) >= 0

\* a satisfying witness whose ageClaim is a disclosure the payload does not
\* list is possible only with the slot's payload match disabled
ForgedAgeClaimNeedsDisabledMatch ==
    (pres.fn = "JWT" /\ pres.satisfied /\ pres.ageClaim = <<DiscForged>>) =>
        pin.witness.matchesCount <= pin.witness.ageClaimIndex

\* the prepares whose self-check (nativeVerify("prepare")) has ended
CheckedPrepares ==
    {k \in OpIds : ops[k].kind = "prepare" /\ ops[k].pc = "done"
                     /\ "check" \in DOMAIN ops[k]}

\* C36: nativeVerify returns true only when the verifier process ended
\* with exit status 0: a process that exits non-zero or is killed by a
\* signal (no exit code) is never reported as a successful verification
C36_VerifiedOnlyOnExitStatusZero ==
    \A k \in CheckedPrepares : ops[k].check.value => ops[k].check.exit = 0

\* a process that reports a non-zero exit code is never reported as a
\* successful verification: only exit status 0 and a missing exit code are
NonZeroExitNeverVerified ==
    \A k \in CheckedPrepares :
        ops[k].check.value => ops[k].check.exit \in {0, NullCode}

(***************************************************************************)
(* The WASM loader and the unified backend, with their callers.            *)
(* loadWasm and initBackend are async functions: a call runs to its first  *)
(* `await` (or to its return), waits there as a task, and is resumed when  *)
(* what it awaits has settled; other calls run in between.  pin holds the  *)
(* facts of the platform, which do not change while the process lives:     *)
(* isNodeJS() and isNativeAvailable() (the binary was found).  Every       *)
(* doLoadWasm run that resolves makes a module instance of its own,        *)
(* ModuleOf(run).                                                          *)
(***************************************************************************)
MaxCalls == 4

ModuleOf(run) == <<"module1", "module2", "module3", "module4", "module5",
                   "module6", "module7", "module8">>[run]

\* an entry of the trace; alone tells that no other call was made, waited
\* or returned between the call and its return
Call(fn, arg, threw, value, alone) ==
    [fn |-> fn, arg |-> arg, threw |-> threw, value |-> value, alone |-> alone]

CallsMade == Len(trace) + Len(tasks)

DoLoadWasmRuns == Cardinality({i \in 1..Len(trace) : trace[i].fn = "doLoadWasm"})

Without(seq, i) == SubSeq(seq, 1, i - 1) \o SubSeq(seq, i + 1, Len(seq))

\* (a loader that does not look at wasmLoadPromise)
loadWasm_NoPromiseCheck ==
    IF wasmModule # "null" THEN "module" ELSE "load"

\* loadWasm() up to its return or its first await: where the call stands
\* ("module": it returned wasmModule; "promise": it returned
\* wasmLoadPromise; "load": it started doLoadWasm and awaits it)
loadWasm ==
    IF wasmModule # "null" THEN "module"
    ELSE IF wasmLoadPromise.state # "null" THEN "promise"
    ELSE "load"

\* wasmLoadPromise after the synchronous part of loadWasm()
PromiseAfterCall(at) ==
    IF at = "load" THEN [state |-> "pending", run |-> DoLoadWasmRuns + 1]
    ELSE wasmLoadPromise

TraceAfterCall(at) ==
    IF at = "load" THEN Append(trace, Call("doLoadWasm", "", "none", "", tasks = <<>>))
    ELSE trace

\* a loadWasm() that stands at `at` can go on: what it awaits has settled,
\* and the tasks that wait for the promise go on in the order they began
Resumable(i) ==
    \/ tasks[i].at = "module"
    \/ /\ wasmLoadPromise.state \in {"resolved", "rejected"}
       /\ \A j \in 1..(i - 1) : tasks[j].at = "module"

\* what the loadWasm() that stands at `at` returns or throws when it goes on
LoadWasmEnd(at) ==
    IF at = "module" THEN [threw |-> "none", value |-> wasmModule]
    ELSE IF wasmLoadPromise.state = "resolved"
    THEN [threw |-> "none", value |-> ModuleOf(wasmLoadPromise.run)]
    ELSE [threw |-> "WasmError", value |-> "null"]

\* wasmModule after it: `wasmModule = await wasmLoadPromise`
ModuleAfter(at) ==
    IF at = "load" /\ wasmLoadPromise.state = "resolved"
    THEN ModuleOf(wasmLoadPromise.run) ELSE wasmModule

\* getWasm()
getWasm ==
    IF wasmModule = "null" THEN [threw |-> "WasmError", value |-> "null"]
    ELSE [threw |-> "none", value |-> wasmModule]

RuntimeUnchanged ==
    UNCHANGED <<now, keys, rng, pin, pres, shows, wlog, store, verifierVars, openacVars>>

\* a caller calls loadWasm()
LoadWasm ==
    /\ CallsMade < MaxCalls
    /\ LET at == loadWasm
       IN  /\ wasmLoadPromise' = PromiseAfterCall(at)
           /\ trace' = TraceAfterCall(at)
           /\ tasks' = Append(tasks, [fn |-> "loadWasm", preferred |-> "", at |-> at,
                                      since |-> Len(trace'), alone |-> tasks = <<>>])
    /\ UNCHANGED <<wasmModule, selectedBackend, backendInitialized>>
    /\ RuntimeUnchanged

\* the doLoadWasm run ends: it resolves with a module or rejects (WasmError)
DoLoadWasm ==
    /\ wasmLoadPromise.state = "pending"
    /\ \E loaded \in BOOLEAN :
         wasmLoadPromise' = [wasmLoadPromise EXCEPT
                               !.state = IF loaded THEN "resolved" ELSE "rejected"]
    /\ UNCHANGED <<wasmModule, selectedBackend, backendInitialized, tasks, trace>>
    /\ RuntimeUnchanged

\* whether the task went from its call to its return with no other call
Alone(i) == tasks[i].alone /\ Len(tasks) = 1 /\ tasks[i].since = Len(trace)

\* a loadWasm() that waited goes on to its end
ResumeLoadWasm ==
    \E i \in 1..Len(tasks) :
      /\ tasks[i].fn = "loadWasm"
      /\ Resumable(i)
      /\ wasmModule' = ModuleAfter(tasks[i].at)
      /\ trace' = Append(trace, Call("loadWasm", "", LoadWasmEnd(tasks[i].at).threw,
                                     LoadWasmEnd(tasks[i].at).value, Alone(i)))
      /\ tasks' = Without(tasks, i)
      /\ UNCHANGED <<wasmLoadPromise, selectedBackend, backendInitialized>>
      /\ RuntimeUnchanged

\* a caller calls getWasm()
GetWasm ==
    /\ CallsMade < MaxCalls
    /\ trace' = Append(trace, Call("getWasm", "", getWasm.threw, getWasm.value,
                                   tasks = <<>>))
    /\ UNCHANGED <<wasmModule, wasmLoadPromise, selectedBackend, backendInitialized,
                   tasks>>
    /\ RuntimeUnchanged

\* initBackend(preferred) up to its return or its `await loadWasm()`: it
\* returns the backend selected before ("selected"), selects the native
\* backend ("native"), throws ("ConfigError") or goes on to load ("await")
initBackend(preferred) ==
    IF backendInitialized /\ selectedBackend # "none" THEN "selected"
    ELSE IF preferred = "native"
    THEN IF pin.isNodeJS /\ pin.nativeAvailable THEN "native" ELSE "ConfigError"
    ELSE IF preferred = "wasm" THEN "await"
    ELSE IF pin.isNodeJS /\ pin.nativeAvailable THEN "native"
    ELSE "await"

\* initBackend(preferred) after its `await loadWasm()`, which threw or not
InitBackendEnd(preferred, loadThrew) ==
    IF loadThrew = "none" THEN [threw |-> "none", value |-> "wasm"]
    ELSE IF preferred = "wasm" THEN [threw |-> "ConfigError", value |-> "none"]
    ELSE IF pin.nativeAvailable THEN [threw |-> "none", value |-> "native"]
    ELSE [threw |-> "none", value |-> "none"]

\* a caller calls initBackend(preferred)
InitBackend ==
    \E preferred \in {"native", "wasm", "undefined"} :
      /\ CallsMade < MaxCalls
      /\ LET to == initBackend(preferred)
             at == loadWasm
         IN  IF to = "await"
             THEN /\ wasmLoadPromise' = PromiseAfterCall(at)
                  /\ trace' = TraceAfterCall(at)
                  /\ tasks' = Append(tasks, [fn |-> "initBackend",
                                             preferred |-> preferred, at |-> at,
                                             since |-> Len(trace'),
                                             alone |-> tasks = <<>>])
                  /\ UNCHANGED <<selectedBackend, backendInitialized>>
             ELSE /\ selectedBackend' = IF to = "native" THEN "native"
                                        ELSE selectedBackend
                  /\ backendInitialized' = IF to = "native" THEN TRUE
                                           ELSE backendInitialized
                  /\ trace' = Append(trace,
                        Call("initBackend", preferred,
                             IF to = "ConfigError" THEN "ConfigError" ELSE "none",
                             selectedBackend', tasks = <<>>))
                  /\ UNCHANGED <<wasmLoadPromise, tasks>>
      /\ UNCHANGED wasmModule
      /\ RuntimeUnchanged

\* an initBackend that waited for loadWasm() goes on to its end
ResumeInitBackend ==
    \E i \in 1..Len(tasks) :
      /\ tasks[i].fn = "initBackend"
      /\ Resumable(i)
      /\ LET end == InitBackendEnd(tasks[i].preferred, LoadWasmEnd(tasks[i].at).threw)
         IN  /\ selectedBackend' = IF end.threw = "none" THEN end.value
                                   ELSE selectedBackend
             /\ backendInitialized' = IF end.threw = "none" THEN TRUE
                                      ELSE backendInitialized
             /\ trace' = Append(trace, Call("initBackend", tasks[i].preferred,
                                            end.threw, end.value, Alone(i)))
      /\ wasmModule' = ModuleAfter(tasks[i].at)
      /\ tasks' = Without(tasks, i)
      /\ UNCHANGED wasmLoadPromise
      /\ RuntimeUnchanged

\* a caller calls getBackendType()
GetBackendType ==
    /\ CallsMade < MaxCalls
    /\ trace' = Append(trace, Call("getBackendType", "", "none", selectedBackend,
                                   tasks = <<>>))
    /\ UNCHANGED <<wasmModule, wasmLoadPromise, selectedBackend, backendInitialized,
                   tasks>>
    /\ RuntimeUnchanged

\* a caller calls resetBackend()
ResetBackend ==
    /\ CallsMade < MaxCalls
    /\ selectedBackend' = "none"
    /\ backendInitialized' = FALSE
    /\ trace' = Append(trace, Call("resetBackend", "", "none", "", tasks = <<>>))
    /\ UNCHANGED <<wasmModule, wasmLoadPromise, tasks>>
    /\ RuntimeUnchanged

InitBackends ==
    /\ now = 0 /\ keys = NoKeys /\ rng = 0
    /\ VerifierIdle /\ OpenACIdle /\ RuntimeIdle
    /\ wasmModule = "null"
    /\ pin \in [isNodeJS : BOOLEAN, nativeAvailable : BOOLEAN]
    /\ pres = NoCall /\ shows = <<>> /\ wlog = <<>>

NextBackends ==
    \/ LoadWasm \/ DoLoadWasm \/ ResumeLoadWasm \/ GetWasm
    \/ InitBackend \/ ResumeInitBackend \/ GetBackendType \/ ResetBackend

SpecBackends == InitBackends /\ [][NextBackends]_vars

\* the calls of loadWasm() that returned a module
LoadedCalls ==
    {i \in 1..Len(trace) : trace[i].fn = "loadWasm" /\ trace[i].threw = "none"}

\* C37: however the loadWasm calls interleave, doLoadWasm is run at most
\* once, every call that succeeds returns the same module instance, and
\* getWasm throws WasmError whenever no load has resolved
C37_WasmLoadedAtMostOnce ==
    /\ DoLoadWasmRuns <= 1
    /\ \A i \in LoadedCalls : \A j \in LoadedCalls : trace[i].value = trace[j].value
    /\ \A i \in LoadedCalls : trace[i].value # "null"
    /\ wasmLoadPromise.state # "resolved" => getWasm.threw = "WasmError"
    /\ \A i \in 1..Len(trace) :
          (trace[i].fn = "getWasm" /\ trace[i].threw = "none")
              => \E j \in 1..(i - 1) : j \in LoadedCalls \/
                     (trace[j].fn = "initBackend" /\ trace[j].value = "wasm")

\* two loadWasm calls that overlapped have both returned the module, and a
\* getWasm before them threw
C37_Witness ==
    /\ \E i \in LoadedCalls : \E j \in LoadedCalls :
          i # j /\ ~trace[i].alone /\ ~trace[j].alone
    /\ \E i \in 1..Len(trace) : trace[i].fn = "getWasm" /\ trace[i].threw = "WasmError"

\* the entries of the trace since the last resetBackend()
SinceReset ==
    LET resets == {i \in 1..Len(trace) : trace[i].fn = "resetBackend"}
        last == IF resets = {} THEN 0 ELSE CHOOSE i \in resets : \A j \in resets : j <= i
    IN  (last + 1)..Len(trace)

\* the initBackend calls since then that selected a backend
Selections ==
    {i \in SinceReset : trace[i].fn = "initBackend" /\ trace[i].threw = "none"
                          /\ trace[i].value # "none"}

\* C38: the selection is sticky until reset: getBackendType returns "none"
\* if no initBackend selected a backend since the last resetBackend, and
\* otherwise the backend that the first such initBackend selected, which is
\* also what every later initBackend returned
C38_BackendStickyUntilReset ==
    IF Selections = {} THEN selectedBackend = "none"
    ELSE LET first == CHOOSE i \in Selections : \A j \in Selections : i <= j
         IN  /\ selectedBackend = trace[first].value
             /\ \A j \in Selections : trace[j].value = trace[first].value

\* the selection is sticky until reset when no two calls overlap
StickyWhenCallsDoNotOverlap ==
    (tasks = <<>> /\ \A i \in 1..Len(trace) : trace[i].alone)
        => C38_BackendStickyUntilReset

(***************************************************************************)
(* MemoryAdapter: a storage adapter over a Map from key to Uint8Array.     *)
(* Its async methods have no await, so each acts on the Map when it is     *)
(* called.  A result of get is <<value>>, or <<>> for null.                *)
(***************************************************************************)
StoreKeys == {"key1", "key2"}

\* the stored values: Uint8Arrays, the empty one among them
StoredValues == {[raw |-> <<>>], [raw |-> <<1, 2, 3>>], [raw |-> <<4, 5, 6>>]}

\* get(key): `this.store.get(key) || null`; a Uint8Array, also an empty one,
\* is an object and so never falsy
get(map, key) == IF key \in DOMAIN map THEN <<map[key]>> ELSE <<>>

\* (a clear that leaves the entries in the Map)
clear_KeepsEntries(map) == map

\* clear(): `this.store.clear()`
clear(map) == <<>>

StorageUnchanged ==
    UNCHANGED <<now, keys, rng, pin, pres, shows, wlog, wasmModule, wasmLoadPromise,
                selectedBackend, backendInitialized, tasks, verifierVars, openacVars>>

AdapterSet ==
    \E key \in StoreKeys, value \in StoredValues :
      /\ Len(trace) < MaxCalls
      /\ store' = MapSet(store, key, value)
      /\ trace' = Append(trace, Call("set", key, "none", value, TRUE))
      /\ StorageUnchanged

AdapterDelete ==
    \E key \in StoreKeys :
      /\ Len(trace) < MaxCalls
      /\ store' = MapDelete(store, key)
      /\ trace' = Append(trace, Call("delete", key, "none", <<>>, TRUE))
      /\ StorageUnchanged

AdapterClear ==
    /\ Len(trace) < MaxCalls
    /\ store' = clear(store)
    /\ trace' = Append(trace, Call("clear", "", "none", <<>>, TRUE))
    /\ StorageUnchanged

AdapterGet ==
    \E key \in StoreKeys :
      /\ Len(trace) < MaxCalls
      /\ trace' = Append(trace, Call("get", key, "none", get(store, key), TRUE))
      /\ UNCHANGED store
      /\ StorageUnchanged

\* keys(): `Array.from(this.store.keys())`, as the set of its entries
AdapterKeys ==
    /\ Len(trace) < MaxCalls
    /\ trace' = Append(trace, Call("keys", "", "none", DOMAIN store, TRUE))
    /\ UNCHANGED store
    /\ StorageUnchanged

InitStorage ==
    /\ now = 0 /\ keys = NoKeys /\ rng = 0
    /\ VerifierIdle /\ ProverIdle /\ OpenACIdle /\ RuntimeIdle

SpecStorage ==
    InitStorage /\ [][AdapterSet \/ AdapterDelete \/ AdapterClear \/ AdapterGet
                        \/ AdapterKeys]_vars

\* what a map holds for the key after the calls: the value of the last
\* set(key) that no delete(key) or clear() followed, <<>> when there is none
LastSet(calls, key) ==
    LET writes == {i \in 1..Len(calls) :
                      \/ calls[i].fn \in {"set", "delete"} /\ calls[i].arg = key
                      \/ calls[i].fn = "clear"}
        last == CHOOSE i \in writes : \A j \in writes : j <= i
    IN  IF writes = {} THEN <<>>
        ELSE IF calls[last].fn = "set" THEN <<calls[last].value>> ELSE <<>>

Before(i) == SubSeq(trace, 1, i - 1)

\* C39: MemoryAdapter behaves as a map: get(k) returns the value of the
\* last set(k) not followed by delete(k) or clear, and null otherwise, and
\* keys() is exactly the set of keys for which get returns a value
C39_MemoryAdapterIsAMap ==
    /\ \A i \in 1..Len(trace) :
          trace[i].fn = "get" => trace[i].value = LastSet(Before(i), trace[i].arg)
    /\ \A i \in 1..Len(trace) :
          trace[i].fn = "keys" =>
              trace[i].value = {k \in StoreKeys : LastSet(Before(i), k) # <<>>}
    /\ \A k \in StoreKeys : get(store, k) = LastSet(trace, k)
    /\ DOMAIN store = {k \in StoreKeys : get(store, k) # <<>>}

\* a get of a key returned null after a set and a clear, and a keys()
\* listed a key
C39_Witness ==
    /\ \E i \in 1..Len(trace) :
          /\ trace[i].fn = "get" /\ trace[i].value = <<>>
          /\ \E j \in 1..(i - 1) : \E l \in (j + 1)..(i - 1) :
                /\ trace[j].fn = "set" /\ trace[j].arg = trace[i].arg
                /\ trace[l].fn = "clear"
    /\ \E i \in 1..Len(trace) : trace[i].fn = "keys" /\ trace[i].value # {}

====
